---- MODULE Spec2Model ----
(***************************************************************************)
(* Behavioural analytics of the MeroBazaar backend: event tracking with    *)
(* view deduplication, the per (user, product) interaction aggregate,      *)
(* RFM segmentation, demand forecasting, pricing suggestions, the          *)
(* "apply dynamic price" write-back and the recommendation fallback.       *)
(***************************************************************************)
EXTENDS Integers, Sequences, FiniteSets, TLC

VARIABLES
    now,            \* wall clock, in minutes (Date.now())
    events,         \* the UserEvent collection, in insertion order
    interactions,   \* the UserProductInteraction collection, keyed by <<user, product>>
    products,       \* the Product collection: product id -> its document
    orders,         \* the Order collection, in insertion order
    users,          \* the User collection: user id -> its document
    req,            \* the request handled last
    resp,           \* what the handler answered (or did) for it
    tasks           \* the handlers in flight and the timers armed: id -> its record

vars == <<now, events, interactions, products, orders, users, req, resp, tasks>>

\* What event tracking never writes.
notTracking == <<products, orders, users, tasks>>
\* What the analytics reads and the pricing write-back never write.
notCatalog == <<now, events, interactions, orders, users, tasks>>

\* No handler in flight, no timer armed
NoTasks == << >>

\* JavaScript's undefined / null (a missing field, an anonymous request)
Undefined == "undefined"
\* undefined where the code expects a number (a quantity, a timestamp)
UndefinedNumber == 0 - 1000

Users == {"u1", "u2"}
Vendors == {"v1", "v2"}
Sessions == {"s1", "s2"}
Products == {"p1", "p2"}

\* ------------------------------------------------------------------------
\* Bounds of the model
\* ------------------------------------------------------------------------
MaxScoreEvents == 3     \* stored events in the interaction-score specification
MaxDedupEvents == 2     \* stored events in the deduplication specification
MaxNow == 32            \* the clock stops advancing here

\* ------------------------------------------------------------------------
\* models/UserBehavior.js
\* ------------------------------------------------------------------------
EventTypeEnum ==
    {"view", "click", "add_to_cart", "remove_from_cart", "purchase", "search",
     "wishlist_add", "wishlist_remove"}

\* UserEvent.create(eventData): the document mongoose stores. quantity defaults
\* to 1 and timestamp to Date.now when the caller gives none.
NewUserEvent(eventData, t) ==
    [user      |-> eventData.user,
     sessionId |-> eventData.sessionId,
     eventType |-> eventData.eventType,
     product   |-> eventData.product,
     quantity  |-> IF eventData.quantity = UndefinedNumber THEN 1 ELSE eventData.quantity,
     timestamp |-> IF eventData.timestamp = UndefinedNumber THEN t ELSE eventData.timestamp]

\* Schema validation of UserEvent.create: eventType is required and an enum
\* member, sessionId is required.
ValidUserEvent(eventData) ==
    /\ eventData.eventType \in EventTypeEnum
    /\ eventData.sessionId # Undefined

\* A UserProductInteraction as the upsert inserts it (schema defaults).
DefaultInteraction ==
    [viewCount |-> 0, clickCount |-> 0, cartAddCount |-> 0, purchaseCount |-> 0,
     wishlistCount |-> 0, interactionScore |-> 0]

\* userProductInteractionSchema.methods.calculateScore
calculateScoreNoPurchase(doc) ==
    doc.viewCount * 1 + doc.clickCount * 2 + doc.cartAddCount * 3
        + doc.wishlistCount * 3

calculateScore(doc) ==
    doc.viewCount * 1 + doc.clickCount * 2 + doc.cartAddCount * 3
        + doc.wishlistCount * 3 + doc.purchaseCount * 5

\* ------------------------------------------------------------------------
\* middleware/trackingMiddleware.js
\* ------------------------------------------------------------------------
VIEW_DEDUP_WINDOW_MINUTES == 30

\* The switch of updateInteractionScore: the $inc document.
incrementFields(eventType, eventData) ==
    [viewCount     |-> IF eventType = "view" THEN 1 ELSE 0,
     clickCount    |-> IF eventType = "click" THEN 1 ELSE 0,
     cartAddCount  |-> IF eventType = "add_to_cart" THEN 1 ELSE 0,
     purchaseCount |-> IF eventType = "purchase"
                       THEN (IF eventData.quantity \in {UndefinedNumber, 0}
                             THEN 1 ELSE eventData.quantity)
                       ELSE 0,
     wishlistCount |-> CASE eventType = "wishlist_add" -> 1
                         [] eventType = "wishlist_remove" -> -1
                         [] OTHER -> 0]

\* findOneAndUpdate({user, product}, {$inc}, {upsert: true, new: true}): one
\* atomic write of the counters; the stored score is not touched.
upsertIncrement(inter, userId, productId, eventType, eventData) ==
    LET key == <<userId, productId>>
        old == IF key \in DOMAIN inter THEN inter[key] ELSE DefaultInteraction
        inc == incrementFields(eventType, eventData)
        doc == [old EXCEPT !.viewCount = @ + inc.viewCount,
                           !.clickCount = @ + inc.clickCount,
                           !.cartAddCount = @ + inc.cartAddCount,
                           !.purchaseCount = @ + inc.purchaseCount,
                           !.wishlistCount = @ + inc.wishlistCount]
    IN  [k \in DOMAIN inter \cup {key} |-> IF k = key THEN doc ELSE inter[k]]

\* interaction.calculateScore(); interaction.save(): the score computed from
\* the document in hand is the one path save() writes.
saveInteractionScore(inter, key, doc) ==
    [inter EXCEPT ![key].interactionScore = calculateScore(doc)]

\* updateInteractionScore, run without another handler in between:
\* findOneAndUpdate, then calculateScore() on the document read back, then save().
updateInteractionScore(inter, userId, productId, eventType, eventData) ==
    LET key == <<userId, productId>>
        upserted == upsertIncrement(inter, userId, productId, eventType, eventData)
    IN  saveInteractionScore(upserted, key, upserted[key])

\* trackEvent: the event it returns (Undefined for null), the Event Store and
\* the interaction collection it leaves.
trackEventCreated(eventData) == ValidUserEvent(eventData)

\* trackEvent if the created document replaced what the collection held
trackEventStoreOverwrites(ev, eventData, t) ==
    IF trackEventCreated(eventData) THEN <<NewUserEvent(eventData, t)>> ELSE ev

trackEventStore(ev, eventData, t) ==
    IF trackEventCreated(eventData) THEN Append(ev, NewUserEvent(eventData, t)) ELSE ev

trackEventInteractions(inter, eventData) ==
    IF /\ trackEventCreated(eventData)
       /\ eventData.user # Undefined
       /\ eventData.product # Undefined
    THEN updateInteractionScore(inter, eventData.user, eventData.product,
                                eventData.eventType, eventData)
    ELSE inter

\* isDuplicateView: UserEvent.findOne({product, eventType: "view",
\* timestamp >= now - 30 min, user | sessionId})
isDuplicateViewBySession(ev, t, sessionId, productId, userId) ==
    \E i \in 1..Len(ev) :
        /\ ev[i].product = productId
        /\ ev[i].eventType = "view"
        /\ ev[i].timestamp >= t - VIEW_DEDUP_WINDOW_MINUTES
        /\ ev[i].sessionId = sessionId

isDuplicateView(ev, t, sessionId, productId, userId) ==
    \E i \in 1..Len(ev) :
        /\ ev[i].product = productId
        /\ ev[i].eventType = "view"
        /\ ev[i].timestamp >= t - VIEW_DEDUP_WINDOW_MINUTES
        /\ IF userId # Undefined
           THEN ev[i].user = userId
           ELSE ev[i].sessionId = sessionId

\* trackProductView: the res.on("finish") callback of a product page request.
\* tokenUser is req.user?._id || getUserIdFromToken(req).
TrackProductView(sessionId, tokenUser, productId, statusOk, cap) ==
    LET dup == isDuplicateView(events, now, sessionId, productId, tokenUser)
        eventData == [user |-> tokenUser, sessionId |-> sessionId, eventType |-> "view",
                      product |-> productId, quantity |-> UndefinedNumber,
                      timestamp |-> UndefinedNumber]
        tracked == statusOk /\ ~dup
    IN  /\ Len(events) < cap
        /\ events' = IF tracked THEN trackEventStore(events, eventData, now) ELSE events
        /\ interactions' = IF tracked THEN trackEventInteractions(interactions, eventData)
                           ELSE interactions
        /\ req' = [op |-> "trackProductView", user |-> tokenUser, sessionId |-> sessionId,
                   items |-> <<[eventType |-> "view", productId |-> productId,
                               quantity |-> UndefinedNumber, timestamp |-> UndefinedNumber]>>,
                   at |-> now]
        /\ resp' = [status |-> IF statusOk THEN 200 ELSE 404,
                    tracked |-> IF tracked THEN 1 ELSE 0,
                    skippedDuplicates |-> IF statusOk /\ dup THEN 1 ELSE 0,
                    total |-> 1]
        /\ UNCHANGED <<now, notTracking>>

\* trackUserEvent: POST /api/analytics/track. The handler passes the body's
\* eventType, productId, quantity (not a timestamp) to trackEvent and does not
\* call isDuplicateView.
TrackUserEvent(reqUser, sessionId, body, cap) ==
    LET eventData == [user |-> reqUser, sessionId |-> sessionId,
                      eventType |-> body.eventType, product |-> body.productId,
                      quantity |-> body.quantity, timestamp |-> UndefinedNumber]
    IN  /\ Len(events) < cap
        /\ events' = trackEventStore(events, eventData, now)
        /\ interactions' = trackEventInteractions(interactions, eventData)
        /\ req' = [op |-> "trackUserEvent", user |-> reqUser, sessionId |-> sessionId,
                   items |-> <<[body EXCEPT !.timestamp = UndefinedNumber]>>, at |-> now]
        /\ resp' = [status |-> IF trackEventCreated(eventData) THEN 201 ELSE 500,
                    tracked |-> IF trackEventCreated(eventData) THEN 1 ELSE 0,
                    skippedDuplicates |-> 0,
                    total |-> 1]
        /\ UNCHANGED <<now, notTracking>>

\* The callback of events.map in trackBatchEvents, for one item: is it skipped
\* as a duplicate view? Every callback runs up to its first await when
\* Promise.all starts them, so each check reads the store as the batch found it.
batchItemSkipped(ev, t, sessionId, userId, item) ==
    /\ item.eventType = "view"
    /\ item.productId # Undefined
    /\ isDuplicateView(ev, t, sessionId, item.productId, userId)

\* trackEvent({...event, product: event.productId, user: userId, sessionId}):
\* the spread keeps every field the client sent, a timestamp included.
batchEventData(item, sessionId, userId) ==
    [user |-> userId, sessionId |-> sessionId, eventType |-> item.eventType,
     product |-> item.productId, quantity |-> item.quantity,
     timestamp |-> item.timestamp]

\* The writes of the batch, item by item, on the items not skipped.
RECURSIVE batchWrites(_, _, _, _, _, _)
batchWrites(items, skipped, sessionId, userId, t, acc) ==
    IF items = << >> THEN acc
    ELSE LET item == Head(items)
             eventData == batchEventData(item, sessionId, userId)
             nxt == IF Head(skipped) THEN acc
                    ELSE [events |-> trackEventStore(acc.events, eventData, t),
                          interactions |-> trackEventInteractions(acc.interactions,
                                                                  eventData),
                          tracked |-> acc.tracked
                              + (IF trackEventCreated(eventData) THEN 1 ELSE 0)]
         IN  batchWrites(Tail(items), Tail(skipped), sessionId, userId, t, nxt)

\* trackBatchEvents: POST /api/analytics/track/batch
TrackBatchEvents(reqUser, sessionId, items, cap) ==
    LET skipped == [i \in 1..Len(items) |->
                        batchItemSkipped(events, now, sessionId, reqUser, items[i])]
        out == batchWrites(items, skipped, sessionId, reqUser, now,
                           [events |-> events, interactions |-> interactions,
                            tracked |-> 0])
    IN  /\ Len(events) + Len(items) <= cap
        /\ req' = [op |-> "trackBatchEvents", user |-> reqUser, sessionId |-> sessionId,
                   items |-> items, at |-> now]
        /\ IF items = << >>
           THEN /\ resp' = [status |-> 400, tracked |-> 0, skippedDuplicates |-> 0,
                            total |-> 0]
                /\ UNCHANGED <<events, interactions>>
           ELSE /\ events' = out.events
                /\ interactions' = out.interactions
                /\ resp' = [status |-> 201,
                            tracked |-> out.tracked,
                            skippedDuplicates |->
                                Cardinality({i \in 1..Len(items) : skipped[i]}),
                            total |-> Len(items)]
        /\ UNCHANGED <<now, notTracking>>

\* Time passes between two requests.
Tick(d) ==
    /\ now + d <= MaxNow
    /\ now' = now + d
    /\ UNCHANGED <<events, interactions, req, resp, notTracking>>

\* The catalog: two products of two vendors (models/Product.js is not part of
\* the sources; the handlers read vendor, price, stock, status, category,
\* tags, rating and reviewCount).
InitProducts ==
    [p \in Products |-> [vendor |-> IF p = "p1" THEN "v1" ELSE "v2", price |-> 100,
                         stock |-> 60, status |-> "active", category |-> "c1",
                         tags |-> IF p = "p1" THEN {"t1"} ELSE {"t1", "t2"},
                         rating |-> IF p = "p1" THEN 4 ELSE 5, reviewCount |-> 1,
                         updatedAt |-> 0]]

\* The users: a customer and an admin (userSchema.role)
InitUsers == [u \in Users |-> [role |-> IF u = "u1" THEN "customer" ELSE "admin"]]

Init ==
    /\ now = 0
    /\ events = << >>
    /\ interactions = [k \in {} |-> DefaultInteraction]
    /\ products = InitProducts
    /\ orders = << >>
    /\ users = InitUsers
    /\ req = [op |-> "none"]
    /\ resp = [status |-> 0]
    /\ tasks = NoTasks

\* ------------------------------------------------------------------------
\* Spec: the tracking entrypoints, one request at a time, on the events that
\* feed the interaction aggregate.
\* ------------------------------------------------------------------------
ScoreUsers == {"u1", Undefined}

ScoreItem(t, p, q) ==
    [eventType |-> t, productId |-> p, quantity |-> q, timestamp |-> UndefinedNumber]

ScoreItems ==
    {ScoreItem(t, "p1", UndefinedNumber) :
        t \in {"view", "click", "add_to_cart", "purchase", "wishlist_add",
               "wishlist_remove"}}
    \cup {ScoreItem("purchase", "p1", 2), ScoreItem("view", "p2", UndefinedNumber),
          ScoreItem("search", Undefined, UndefinedNumber)}

ScoreBatches ==
    {<< >>} \cup {<<a>> : a \in ScoreItems} \cup {<<a, b>> : a, b \in ScoreItems}

Next ==
    \/ \E body \in ScoreItems :
           TrackUserEvent("u1", "s1", body, MaxScoreEvents)
    \/ TrackUserEvent(Undefined, "s1", ScoreItem("click", "p1", UndefinedNumber),
                      MaxScoreEvents)
    \/ \E items \in ScoreBatches :
           TrackBatchEvents("u1", "s1", items, MaxScoreEvents)
    \/ \E u \in ScoreUsers, p \in Products, ok \in BOOLEAN :
           TrackProductView("s1", u, p, ok, MaxScoreEvents)

Spec == Init /\ [][Next]_vars

\* ------------------------------------------------------------------------
\* SpecDedup: the same entrypoints on view events of two sessions, with the
\* clock advancing between requests.
\* ------------------------------------------------------------------------
DedupUsers == {"u1", Undefined}

DedupItem(t, p, ts) ==
    [eventType |-> t, productId |-> p, quantity |-> UndefinedNumber, timestamp |-> ts]

\* What a client may put in a request body (a batch item may carry a timestamp).
DedupBodies == {DedupItem("view", "p1", UndefinedNumber), DedupItem("click", "p1", UndefinedNumber)}

DedupBatchItems ==
    {DedupItem("view", "p1", UndefinedNumber), DedupItem("view", "p1", 0),
     DedupItem("view", "p2", UndefinedNumber)}

DedupBatches ==
    {<<a>> : a \in DedupBatchItems} \cup {<<a, b>> : a, b \in DedupBatchItems}

TickSteps == {15, 16}

NextDedup ==
    \/ \E u \in DedupUsers, s \in Sessions, body \in DedupBodies :
           TrackUserEvent(u, s, body, MaxDedupEvents)
    \/ \E u \in DedupUsers, s \in Sessions, items \in DedupBatches :
           TrackBatchEvents(u, s, items, MaxDedupEvents)
    \/ \E u \in DedupUsers, s \in Sessions, p \in Products :
           TrackProductView(s, u, p, TRUE, MaxDedupEvents)
    \/ \E d \in TickSteps : Tick(d)

SpecDedup == Init /\ [][NextDedup]_vars

\* ------------------------------------------------------------------------
\* SpecApply: POST /api/analytics/pricing/apply, behind `protect`
\* ------------------------------------------------------------------------

\* The DynamicPrice collection. Nothing in the repository writes it (the
\* pricing service does): two records for p1, one for p2, one whose product is
\* no longer in the catalog.
DynamicPrices ==
    {[id |-> "d1", product |-> "p1", recommendedPrice |-> 120, isActive |-> TRUE],
     [id |-> "d2", product |-> "p1", recommendedPrice |-> 90, isActive |-> FALSE],
     [id |-> "d3", product |-> "p2", recommendedPrice |-> 110, isActive |-> TRUE],
     [id |-> "d4", product |-> "p9", recommendedPrice |-> 50, isActive |-> TRUE]}

PriceIds == {dp.id : dp \in DynamicPrices} \cup {"d0"}
ProductIds == Products \cup {"p9"}

\* Who may present a bearer token: a user (customer or admin), a vendor, nobody.
Bearers == Users \cup Vendors \cup {Undefined}

\* protect: the token's id is looked up among the users only; req.user is set,
\* req.vendor never is.
protectUser(bearer) == IF bearer \in Users THEN bearer ELSE Undefined

\* applyDynamicPrice: the status it answers with.
applyDynamicPriceStatus(prods, reqVendor, productId, priceId) ==
    IF ~\E dp \in DynamicPrices : dp.id = priceId /\ dp.product = productId
    THEN 404
    ELSE IF productId \notin DOMAIN prods
    THEN 404
    ELSE IF reqVendor # Undefined /\ prods[productId].vendor # reqVendor
    THEN 403
    ELSE 200

\* save() of a product document: nothing is written when no path was
\* modified; otherwise the document is stored and, the schema having
\* timestamps, its updatedAt becomes the time of the save.
saveProduct(prods, productId, doc, t) ==
    IF doc = prods[productId] THEN prods
    ELSE [prods EXCEPT ![productId] = [doc EXCEPT !.updatedAt = t]]

\* A variant of the write-back that prices every product of the catalog
applyDynamicPriceProductsAll(prods, reqVendor, productId, priceId, t) ==
    IF applyDynamicPriceStatus(prods, reqVendor, productId, priceId) = 200
    THEN LET dp == CHOOSE d \in DynamicPrices : d.id = priceId
         IN  [p \in DOMAIN prods |->
                 [prods[p] EXCEPT !.price = dp.recommendedPrice, !.updatedAt = t]]
    ELSE prods

\* applyDynamicPrice: product.price = dynamicPrice.recommendedPrice; save()
applyDynamicPriceProducts(prods, reqVendor, productId, priceId, t) ==
    IF applyDynamicPriceStatus(prods, reqVendor, productId, priceId) = 200
    THEN LET dp == CHOOSE d \in DynamicPrices : d.id = priceId
         IN  saveProduct(prods, productId,
                         [prods[productId] EXCEPT !.price = dp.recommendedPrice], t)
    ELSE prods

\* router.post("/pricing/apply", protect, applyDynamicPrice)
PricingApply(bearer, productId, priceId) ==
    LET reqUser == protectUser(bearer)
        reqVendor == Undefined
        status == IF reqUser = Undefined THEN 401
                  ELSE applyDynamicPriceStatus(products, reqVendor, productId, priceId)
    IN  /\ req' = [op |-> "applyDynamicPrice", principal |-> bearer,
                   productId |-> productId, priceId |-> priceId]
        /\ products' = IF reqUser = Undefined THEN products
                       ELSE applyDynamicPriceProducts(products, reqVendor, productId,
                                                      priceId, now)
        /\ resp' = [status |-> status]
        /\ UNCHANGED notCatalog

NextApply ==
    \E bearer \in Bearers, productId \in ProductIds, priceId \in PriceIds :
        PricingApply(bearer, productId, priceId)

SpecApply == Init /\ [][NextApply]_vars

\* The principal of the request owns the product it names, and the price record
\* it names is a record of that product.
RequesterOwnsProduct(r, prods) ==
    /\ r.productId \in DOMAIN prods
    /\ prods[r.productId].vendor = r.principal

PriceRecordMatches(r) ==
    \E dp \in DynamicPrices : dp.id = r.priceId /\ dp.product = r.productId

\* C3: applyDynamicPrice changes a stored price only for a requester who owns
\* the product and names a price record of that product; any other request is
\* answered 401, 403 or 404 and leaves every price as it was.
C3_OnlyOwnerAppliesPrice ==
    [][/\ products' # products
          => (RequesterOwnsProduct(req', products) /\ PriceRecordMatches(req'))
       /\ (req'.op = "applyDynamicPrice"
           /\ ~(RequesterOwnsProduct(req', products) /\ PriceRecordMatches(req')))
          => (resp'.status \in {401, 403, 404} /\ products' = products)]_vars

\* ------------------------------------------------------------------------
\* SpecSegment: the segment decision of getVendorCustomerSegments and
\* getAdminCustomerSegments, on every triple of sub-scores
\* ------------------------------------------------------------------------
SubScores == 1..5

\* getVendorCustomerSegments: "Determine segment"
vendorSegmentLoyalLast(recencyScore, frequencyScore, monetaryScore) ==
    LET rfmScore == recencyScore + frequencyScore + monetaryScore
    IN  IF rfmScore >= 13 THEN "Champions"
        ELSE IF frequencyScore >= 4 THEN "Potential Loyalists"
        ELSE IF rfmScore >= 10 /\ recencyScore >= 4 THEN "Loyal Customers"
        ELSE IF recencyScore >= 4 /\ frequencyScore <= 2 THEN "New Customers"
        ELSE IF recencyScore <= 2 /\ frequencyScore >= 3 THEN "At Risk"
        ELSE IF recencyScore <= 2 /\ monetaryScore >= 3 THEN "Can't Lose Them"
        ELSE IF recencyScore <= 2 THEN "Hibernating"
        ELSE "Need Attention"

vendorSegment(recencyScore, frequencyScore, monetaryScore) ==
    LET rfmScore == recencyScore + frequencyScore + monetaryScore
    IN  IF rfmScore >= 13 THEN "Champions"
        ELSE IF rfmScore >= 10 /\ recencyScore >= 4 THEN "Loyal Customers"
        ELSE IF frequencyScore >= 4 THEN "Potential Loyalists"
        ELSE IF recencyScore >= 4 /\ frequencyScore <= 2 THEN "New Customers"
        ELSE IF recencyScore <= 2 /\ frequencyScore >= 3 THEN "At Risk"
        ELSE IF recencyScore <= 2 /\ monetaryScore >= 3 THEN "Can't Lose Them"
        ELSE IF recencyScore <= 2 THEN "Hibernating"
        ELSE "Need Attention"

\* getAdminCustomerSegments: the same chain, written without braces
adminSegment(recencyScore, frequencyScore, monetaryScore) ==
    LET rfmScore == recencyScore + frequencyScore + monetaryScore
    IN  IF rfmScore >= 13 THEN "Champions"
        ELSE IF rfmScore >= 10 /\ recencyScore >= 4 THEN "Loyal Customers"
        ELSE IF frequencyScore >= 4 THEN "Potential Loyalists"
        ELSE IF recencyScore >= 4 /\ frequencyScore <= 2 THEN "New Customers"
        ELSE IF recencyScore <= 2 /\ frequencyScore >= 3 THEN "At Risk"
        ELSE IF recencyScore <= 2 /\ monetaryScore >= 3 THEN "Can't Lose Them"
        ELSE IF recencyScore <= 2 THEN "Hibernating"
        ELSE "Need Attention"

\* One customer of the segmentedCustomers map of either handler.
SegmentCustomer(op, r, f, m) ==
    /\ req' = [op |-> op, recencyScore |-> r, frequencyScore |-> f, monetaryScore |-> m]
    /\ resp' = [rfmScore |-> r + f + m,
                segment |-> IF op = "getVendorCustomerSegments"
                            THEN vendorSegment(r, f, m)
                            ELSE adminSegment(r, f, m)]
    /\ UNCHANGED <<notCatalog, products>>

NextSegment ==
    \/ \E r \in SubScores, f \in SubScores, m \in SubScores :
           SegmentCustomer("getVendorCustomerSegments", r, f, m)
    \/ \E r \in SubScores, f \in SubScores, m \in SubScores :
           SegmentCustomer("getAdminCustomerSegments", r, f, m)

SpecSegment == Init /\ [][NextSegment]_vars

\* The decision table of the segmentation, in its stated order.
SegmentTable ==
    <<"Champions", "Loyal Customers", "Potential Loyalists", "New Customers", "At Risk",
      "Can't Lose Them", "Hibernating", "Need Attention">>

SegmentRuleMatches(i, r, f, m) ==
    CASE i = 1 -> r + f + m >= 13
      [] i = 2 -> r + f + m >= 10 /\ r >= 4
      [] i = 3 -> f >= 4
      [] i = 4 -> r >= 4 /\ f <= 2
      [] i = 5 -> r <= 2 /\ f >= 3
      [] i = 6 -> r <= 2 /\ m >= 3
      [] i = 7 -> r <= 2
      [] OTHER -> TRUE

\* C4: both segmentations label a customer by the first rule of the table that
\* matches; rfmScore 13 is Champions, rfmScore 12 with recencyScore 4 is Loyal
\* Customers, rfmScore 12 with recencyScore 3 is not, and the label is one of
\* the eight.
C4_FirstMatchingRule ==
    req.op \in {"getVendorCustomerSegments", "getAdminCustomerSegments"} =>
        LET r == req.recencyScore
            f == req.frequencyScore
            m == req.monetaryScore
            first == CHOOSE i \in 1..8 :
                        /\ SegmentRuleMatches(i, r, f, m)
                        /\ \A j \in 1..(i - 1) : ~SegmentRuleMatches(j, r, f, m)
        IN  /\ resp.segment = SegmentTable[first]
            /\ Cardinality({i \in 1..8 : SegmentTable[i] = resp.segment}) = 1
            /\ resp.rfmScore = 13 => resp.segment = "Champions"
            /\ (resp.rfmScore = 12 /\ r = 4) => resp.segment = "Loyal Customers"
            /\ (resp.rfmScore = 12 /\ r = 3) => resp.segment # "Loyal Customers"

\* A customer with rfmScore 12 and recencyScore 3, who falls through the Loyal
\* Customers rule to Potential Loyalists.
C4_Witness ==
    /\ req.op = "getVendorCustomerSegments"
    /\ resp.rfmScore = 12
    /\ req.recencyScore = 3
    /\ resp.segment = "Potential Loyalists"

\* ------------------------------------------------------------------------
\* SpecPricing: one product of getVendorPricingSuggestions and
\* getAdminPricingSuggestions.  A number that need not be an integer is a
\* fraction <<n, d>> with d > 0.
\* ------------------------------------------------------------------------
Frac(n, d) == <<n, d>>
FracLT(a, b) == a[1] * b[2] < b[1] * a[2]
FracEQ(a, b) == a[1] * b[2] = b[1] * a[2]
FracMin(a, b) == IF FracLT(b, a) THEN b ELSE a
FracMax(a, b) == IF FracLT(a, b) THEN b ELSE a
FracAbs(a) == IF a[1] < 0 THEN <<0 - a[1], a[2]>> ELSE a
FracNeg(a) == <<0 - a[1], a[2]>>
\* Math.round: the nearest integer, a half going up
MathRound(a) == (2 * a[1] + a[2]) \div (2 * a[2])

\* productMetrics[productId] after the orders.forEach loop: every counted item
\* adds its quantity to totalSold and to exactly one of the two windows
totalSoldOf(data) == data.lastThirtyDaysSales + data.prevThirtyDaysSales

conversionRateOf(data) ==
    IF data.views > 0 THEN Frac(totalSoldOf(data) * 100, data.views) ELSE Frac(0, 1)

trendPercentageOf(data) ==
    IF data.prevThirtyDaysSales > 0
    THEN Frac((data.lastThirtyDaysSales - data.prevThirtyDaysSales) * 100,
              data.prevThirtyDaysSales)
    ELSE IF data.lastThirtyDaysSales > 0 THEN Frac(100, 1) ELSE Frac(0, 1)

demandTrendOf(data) ==
    IF data.prevThirtyDaysSales > 0
    THEN IF FracLT(Frac(20, 1), trendPercentageOf(data)) THEN "high"
         ELSE IF FracLT(trendPercentageOf(data), Frac(0 - 20, 1)) THEN "low"
         ELSE "stable"
    ELSE IF data.lastThirtyDaysSales > 0 THEN "high" ELSE "stable"

avgDailySalesOf(data) == Frac(data.lastThirtyDaysSales, 30)

\* lastThirtyDaysSales / 30 is a double: exact when it is a multiple of 1/2
avgDailySalesIsExact(data) == data.lastThirtyDaysSales % 15 = 0

\* The rounding errors a double division by an inexact avgDailySales can
\* leave in daysOfStock, in thousandths of a day (far more than a double's
\* error, far less than the distance between two quotients of the inputs):
\* 42 / (21 / 30) is 60.00000000000001.
DivisionErrors == {0 - 1, 0, 1}

divisionErrorsOf(data) ==
    IF data.lastThirtyDaysSales > 0 /\ ~avgDailySalesIsExact(data) /\ data.product.stock > 0
    THEN DivisionErrors ELSE {0}

daysOfStockOf(data, err) ==
    IF data.lastThirtyDaysSales > 0
    THEN Frac(data.product.stock * 30 * 1000 + err * data.lastThirtyDaysSales,
              data.lastThirtyDaysSales * 1000)
    ELSE Frac(999, 1)

\* The locals the rule chain reads
metricsOf(data, err) ==
    [totalSold |-> totalSoldOf(data),
     views |-> data.views,
     conversionRate |-> conversionRateOf(data),
     demandTrend |-> demandTrendOf(data),
     trendPercentage |-> trendPercentageOf(data),
     daysOfStock |-> daysOfStockOf(data, err),
     avgDailySales |-> avgDailySalesOf(data),
     stock |-> data.product.stock,
     price |-> data.product.price,
     lastThirtyDaysSales |-> data.lastThirtyDaysSales]

\* The condition of the i-th branch of the rule chain
ruleCondition(i, m) ==
    CASE i = 1 -> m.demandTrend = "high" /\ FracLT(m.daysOfStock, Frac(14, 1))
      [] i = 2 -> m.demandTrend = "low" /\ FracLT(Frac(60, 1), m.daysOfStock)
      [] i = 3 -> m.views > 50 /\ FracLT(m.conversionRate, Frac(1, 1))
      [] i = 4 -> FracLT(Frac(5, 1), m.conversionRate) /\ m.demandTrend # "low"
      [] OTHER -> m.stock < 5 /\ FracLT(Frac(1, 2), m.avgDailySales)

\* product.price * (1 + adjustmentPercentage / 100), rounded
adjustedPrice(price, adj) == MathRound(Frac(price * (100 * adj[2] + adj[1]), 100 * adj[2]))

\* The body of the i-th branch
ruleBody(i, m) ==
    CASE i = 1 ->
            LET t == m.trendPercentage
                adj == FracMin(Frac(15, 1), FracMax(Frac(5, 1), Frac(t[1], t[2] * 5)))
            IN  [adjustmentPercentage |-> adj,
                 suggestedPrice |-> adjustedPrice(m.price, adj),
                 reason |-> "High demand with limited stock", priority |-> "high"]
      [] i = 2 ->
            LET t == FracAbs(m.trendPercentage)
                adj == FracNeg(FracMin(Frac(20, 1), FracMax(Frac(5, 1), Frac(t[1], t[2] * 4))))
            IN  [adjustmentPercentage |-> adj,
                 suggestedPrice |-> adjustedPrice(m.price, adj),
                 reason |-> "Low demand with excess inventory", priority |-> "high"]
      [] i = 3 ->
            [adjustmentPercentage |-> Frac(0 - 10, 1),
             suggestedPrice |-> MathRound(Frac(m.price * 9, 10)),
             reason |-> "Low conversion rate - consider competitive pricing",
             priority |-> "medium"]
      [] i = 4 ->
            [adjustmentPercentage |-> Frac(5, 1),
             suggestedPrice |-> MathRound(Frac(m.price * 105, 100)),
             reason |-> "Strong conversion rate suggests room for price increase",
             priority |-> "low"]
      [] OTHER ->
            [adjustmentPercentage |-> Frac(10, 1),
             suggestedPrice |-> MathRound(Frac(m.price * 11, 10)),
             reason |-> "Critical low stock - maximize margin", priority |-> "high"]

\* let suggestedPrice = product.price; adjustmentPercentage = 0; reason = ""; priority = "low"
noChange(m) ==
    [adjustmentPercentage |-> Frac(0, 1), suggestedPrice |-> m.price,
     reason |-> "", priority |-> "low"]

\* Variants of the chain: rule 5 tested before rule 4, and plain ifs in place
\* of else-ifs.
vendorRulesRunStockFirst(m) ==
    IF ruleCondition(1, m) THEN <<1>>
    ELSE IF ruleCondition(2, m) THEN <<2>>
    ELSE IF ruleCondition(3, m) THEN <<3>>
    ELSE IF ruleCondition(5, m) THEN <<5>>
    ELSE IF ruleCondition(4, m) THEN <<4>>
    ELSE <<>>

adminRulesRunNoElse(m) ==
    SelectSeq(<<1, 2, 3, 4, 5>>, LAMBDA i : ruleCondition(i, m))

\* The branches whose body runs, in the order they run (vendor handler)
vendorRulesRun(m) ==
    IF ruleCondition(1, m) THEN <<1>>
    ELSE IF ruleCondition(2, m) THEN <<2>>
    ELSE IF ruleCondition(3, m) THEN <<3>>
    ELSE IF ruleCondition(4, m) THEN <<4>>
    ELSE IF ruleCondition(5, m) THEN <<5>>
    ELSE <<>>

\* The same chain in the admin handler
adminRulesRun(m) ==
    IF ruleCondition(1, m) THEN <<1>>
    ELSE IF ruleCondition(2, m) THEN <<2>>
    ELSE IF ruleCondition(3, m) THEN <<3>>
    ELSE IF ruleCondition(4, m) THEN <<4>>
    ELSE IF ruleCondition(5, m) THEN <<5>>
    ELSE <<>>

\* The four locals after the chain: each body that ran overwrote them
localsAfter(run, m) ==
    IF run = <<>> THEN noChange(m) ELSE ruleBody(run[Len(run)], m)

\* suggestions.push({... suggestion: {...}})
suggestionOf(run, m) ==
    LET l == localsAfter(run, m)
        a == l.adjustmentPercentage
    IN  [recommendedPrice |-> l.suggestedPrice,
         adjustmentPercentage |-> Frac(MathRound(Frac(a[1] * 10, a[2])), 10),
         reason |-> l.reason,
         priority |-> l.priority,
         potentialRevenue |->
             IF a[1] # 0
             THEN (l.suggestedPrice - m.price) * m.lastThirtyDaysSales
             ELSE 0]

\* One product of the suggestions of either handler.  resp.metrics holds the
\* locals as the handler computed them, resp.rulesRun the branches it took.
PricingSuggestion(op, data, err) ==
    LET m == metricsOf(data, err)
        run == IF op = "getVendorPricingSuggestions"
               THEN vendorRulesRun(m) ELSE adminRulesRun(m)
    IN  /\ req' = [op |-> op, data |-> data]
        /\ resp' = [status |-> 200, metrics |-> m, rulesRun |-> run,
                    suggestion |-> suggestionOf(run, m)]
        /\ UNCHANGED <<notCatalog, products>>

\* Inputs.  None of them makes a price or an adjustment an inexact double
\* that sits on a half, so Math.round is the exact rounding on them.
PricingPrices == {15}
PricingStocks == {3, 14, 22, 100}
PricingViews == {0, 40, 2000}
PricingLastSales == {0, 11, 16, 30}
PricingPrevSales == {0, 10, 30}

PricingData ==
    {[product |-> [price |-> p, stock |-> s], views |-> v,
      lastThirtyDaysSales |-> l, prevThirtyDaysSales |-> q] :
        p \in PricingPrices, s \in PricingStocks, v \in PricingViews,
        l \in PricingLastSales, q \in PricingPrevSales}

NextPricing ==
    \/ \E data \in PricingData : \E err \in divisionErrorsOf(data) :
           PricingSuggestion("getVendorPricingSuggestions", data, err)
    \/ \E data \in PricingData : \E err \in divisionErrorsOf(data) :
           PricingSuggestion("getAdminPricingSuggestions", data, err)

SpecPricing == Init /\ [][NextPricing]_vars

\* The rule table of the pricing advisor, over the metrics of a product.
PricingRuleMatches(i, m) ==
    CASE i = 1 -> m.demandTrend = "high" /\ FracLT(m.daysOfStock, Frac(14, 1))
      [] i = 2 -> m.demandTrend = "low" /\ FracLT(Frac(60, 1), m.daysOfStock)
      [] i = 3 -> m.views > 50 /\ FracLT(m.conversionRate, Frac(1, 1))
      [] i = 4 -> FracLT(Frac(5, 1), m.conversionRate) /\ m.demandTrend # "low"
      [] i = 5 -> m.stock < 5 /\ FracLT(Frac(1, 2), m.avgDailySales)
      [] OTHER -> FALSE

PricingRuleReason ==
    <<"High demand with limited stock", "Low demand with excess inventory",
      "Low conversion rate - consider competitive pricing",
      "Strong conversion rate suggests room for price increase",
      "Critical low stock - maximize margin">>

PricingRulePriority == <<"high", "high", "medium", "low", "high">>

Clamp(x, lo, hi) == FracMin(hi, FracMax(lo, x))

\* The adjustment of rule i before it is rounded to a tenth
PricingRuleAdjustment(i, m) ==
    CASE i = 1 -> Clamp(Frac(m.trendPercentage[1], m.trendPercentage[2] * 5),
                        Frac(5, 1), Frac(15, 1))
      [] i = 2 -> FracNeg(Clamp(Frac(FracAbs(m.trendPercentage)[1], m.trendPercentage[2] * 4),
                                Frac(5, 1), Frac(20, 1)))
      [] i = 3 -> Frac(0 - 10, 1)
      [] i = 4 -> Frac(5, 1)
      [] OTHER -> Frac(10, 1)

\* |a - b| <= 1/20
WithinATenthsRounding(a, b) ==
    LET n == a[1] * b[2] - b[1] * a[2]
        d == a[2] * b[2]
    IN  20 * n <= d /\ 0 - d <= 20 * n

PricingOps == {"getVendorPricingSuggestions", "getAdminPricingSuggestions"}

FirstPricingRule(m) ==
    IF \E i \in 1..5 : PricingRuleMatches(i, m)
    THEN CHOOSE i \in 1..5 :
            PricingRuleMatches(i, m) /\ \A j \in 1..(i - 1) : ~PricingRuleMatches(j, m)
    ELSE 0

\* C5: both pricing handlers output the result of the first of rules 1..5 that
\* matches the product's metrics; a product with stock below 5 and avgDailySales
\* above 0.5 that matches none of rules 1-4 gets +10%, priority high, reason
\* "Critical low stock".
C5_FirstPricingRuleWins ==
    req.op \in PricingOps =>
        LET m == resp.metrics
            first == FirstPricingRule(m)
            s == resp.suggestion
        IN  /\ first # 0 =>
                /\ s.reason = PricingRuleReason[first]
                /\ s.priority = PricingRulePriority[first]
                /\ WithinATenthsRounding(s.adjustmentPercentage, PricingRuleAdjustment(first, m))
            /\ (/\ m.stock < 5
                /\ FracLT(Frac(1, 2), m.avgDailySales)
                /\ \A j \in 1..4 : ~PricingRuleMatches(j, m)) =>
                    /\ FracEQ(s.adjustmentPercentage, Frac(10, 1))
                    /\ s.priority = "high"
                    /\ s.reason = "Critical low stock - maximize margin"

\* Rule 5 is reached: stock 3, 30 units sold in each window (avgDailySales 1.0,
\* stable demand), no views.
C5_Witness ==
    /\ req.op = "getVendorPricingSuggestions"
    /\ req.data.product.stock = 3
    /\ req.data.lastThirtyDaysSales = 30
    /\ req.data.prevThirtyDaysSales = 30
    /\ req.data.views = 0
    /\ resp.rulesRun = <<5>>
    /\ resp.suggestion.reason = "Critical low stock - maximize margin"
    /\ FracEQ(resp.suggestion.adjustmentPercentage, Frac(10, 1))

\* C6: at most one rule's branch runs for a product, and a product whose
\* metrics meet no rule's condition gets adjustmentPercentage 0, a
\* recommendedPrice equal to its current price and potentialRevenue 0.
C6_AtMostOneRuleFires ==
    req.op \in PricingOps =>
        /\ Len(resp.rulesRun) <= 1
        /\ (\A i \in 1..5 : ~PricingRuleMatches(i, resp.metrics)) =>
              /\ resp.rulesRun = <<>>
              /\ FracEQ(resp.suggestion.adjustmentPercentage, Frac(0, 1))
              /\ resp.suggestion.recommendedPrice = req.data.product.price
              /\ resp.suggestion.potentialRevenue = 0

\* A product that meets no rule: stock 100, stable demand (30 and 30 units), no
\* views; and the admin handler has answered for it.
C6_Witness ==
    /\ req.op = "getAdminPricingSuggestions"
    /\ req.data.product.stock = 100
    /\ req.data.lastThirtyDaysSales = 30
    /\ req.data.prevThirtyDaysSales = 30
    /\ req.data.views = 0
    /\ resp.rulesRun = <<>>
    /\ resp.suggestion.recommendedPrice = req.data.product.price

\* ------------------------------------------------------------------------
\* SpecForecast: getVendorDemandForecasts and getAdminDemandForecasts over
\* an order history
\* ------------------------------------------------------------------------
MinutesPerDay == 24 * 60

\* new Date(t).toISOString().split("T")[0]: the UTC calendar day of t
isoDate(t) == t \div MinutesPerDay

\* Date.prototype.getDay of a calendar day, on a server whose zone is UTC:
\* 0 is Sunday, and day 0 (1970-01-01) was a Thursday
getDay(date) == (date + 4) % 7

\* d.setDate(d.getDate() - n)
daysBefore(t, n) == t - n * MinutesPerDay

RECURSIVE GCD(_, _)
GCD(a, b) == IF b = 0 THEN a ELSE GCD(b, a % b)

\* The same number in lowest terms
FracNorm(a) ==
    LET n == IF a[1] < 0 THEN 0 - a[1] ELSE a[1]
        g == GCD(n, a[2])
    IN  <<a[1] \div g, a[2] \div g>>

FracMul(a, b) == FracNorm(<<FracNorm(a)[1] * FracNorm(b)[1], FracNorm(a)[2] * FracNorm(b)[2]>>)

\* NaN where the code expects a number
NotANumber == 0 - 2000

\* An Order document with one item, as createOrder stores it (models/Order.js
\* is not part of the sources; the handlers read user, createdAt, orderStatus
\* and the items' product, vendor, quantity and price).
\* createOrder: total = subtotal + shippingCost + tax, shipping free from 1000,
\* tax 5% (whole for the subtotals of the model, multiples of 100)
orderTotal(subtotal) ==
    subtotal + (IF subtotal >= 1000 THEN 0 ELSE 100) + (subtotal * 5) \div 100

NewOrder(user, createdAt, product, quantity, orderStatus) ==
    [user |-> user, createdAt |-> createdAt, orderStatus |-> orderStatus,
     total |-> orderTotal(InitProducts[product].price * quantity),
     items |-> << [product |-> product, vendor |-> InitProducts[product].vendor,
                   quantity |-> quantity, price |-> InitProducts[product].price] >>]

\* Order.find({"items.vendor": vendor, createdAt: {$gte: ninetyDaysAgo},
\*             orderStatus: {$ne: "cancelled"}})
vendorForecastOrders(ords, t, vendor) ==
    SelectSeq(ords, LAMBDA o :
        /\ \E i \in DOMAIN o.items : o.items[i].vendor = vendor
        /\ o.createdAt >= daysBefore(t, 90)
        /\ o.orderStatus # "cancelled")

\* Order.find({createdAt: {$gte: ninetyDaysAgo}, orderStatus: {$ne: "cancelled"}})
adminForecastOrders(ords, t) ==
    SelectSeq(ords, LAMBDA o :
        /\ o.createdAt >= daysBefore(t, 90)
        /\ o.orderStatus # "cancelled")

\* orders.forEach(order => order.items.forEach(item => ...)): every item with
\* the orderDate of its order
RECURSIVE orderItems(_)
orderItems(ords) ==
    IF ords = << >> THEN << >>
    ELSE LET o == Head(ords)
         IN  [i \in 1..Len(o.items) |->
                 [date |-> isoDate(o.createdAt), product |-> o.items[i].product,
                  vendor |-> o.items[i].vendor, quantity |-> o.items[i].quantity,
                  price |-> o.items[i].price]]
             \o orderItems(Tail(ords))

\* The items the vendor handler adds to productSalesMap[product]
vendorProductItems(ords, t, vendor, product) ==
    SelectSeq(orderItems(vendorForecastOrders(ords, t, vendor)), LAMBDA it :
        it.vendor # Undefined /\ it.vendor = vendor /\ it.product = product)

\* The items the admin handler adds to productSalesMap[product]
adminProductItems(ords, t, product) ==
    SelectSeq(orderItems(adminForecastOrders(ords, t)), LAMBDA it : it.product = product)

RECURSIVE sumQuantity(_)
sumQuantity(seq) == IF seq = << >> THEN 0 ELSE Head(seq).quantity + sumQuantity(Tail(seq))

RECURSIVE sumRevenue(_)
sumRevenue(seq) ==
    IF seq = << >> THEN 0
    ELSE Head(seq).price * Head(seq).quantity + sumRevenue(Tail(seq))

RECURSIVE sortedDates(_)
sortedDates(S) ==
    IF S = {} THEN << >>
    ELSE LET first == CHOOSE x \in S : \A y \in S : x <= y
         IN  <<first>> \o sortedDates(S \ {first})

\* Object.entries(data.dailySales).sort(by date).map(...): one entry per
\* calendar day with a counted item, oldest first
salesArrayOf(items) ==
    LET dates == sortedDates({items[i].date : i \in DOMAIN items})
    IN  [j \in 1..Len(dates) |->
            LET ofDay == SelectSeq(items, LAMBDA it : it.date = dates[j])
            IN  [date |-> dates[j], quantity |-> sumQuantity(ofDay),
                 revenue |-> sumRevenue(ofDay)]]

\* if (salesArray.length < 3): not enough data for forecasting
insufficientDataBelowTwo(salesArray) == Len(salesArray) < 2

insufficientData(salesArray) == Len(salesArray) < 3

\* seq.slice(0, n)
sliceFirst(seq, n) == SubSeq(seq, 1, IF Len(seq) > n THEN n ELSE Len(seq))

\* seq.slice(-n)
sliceLast(seq, n) == SubSeq(seq, IF Len(seq) > n THEN Len(seq) - n + 1 ELSE 1, Len(seq))

\* seq.slice(-30, -15)
slicePrevHalf(seq) ==
    SubSeq(seq, IF Len(seq) > 30 THEN Len(seq) - 29 ELSE 1, Len(seq) - 15)

\* seq.reduce((sum, d) => sum + d.quantity, 0) / seq.length
meanQuantity(seq) == FracNorm(Frac(sumQuantity(seq), Len(seq)))

forecastAvgDailySales(salesArray) == meanQuantity(sliceLast(salesArray, 30))

forecastTrendPercentage(salesArray) ==
    LET lastHalf == sliceLast(salesArray, 15)
        prevHalf == slicePrevHalf(salesArray)
        lastHalfAvg == IF Len(lastHalf) > 0 THEN meanQuantity(lastHalf) ELSE Frac(0, 1)
        prevHalfAvg == IF Len(prevHalf) > 0 THEN meanQuantity(prevHalf) ELSE lastHalfAvg
    IN  IF prevHalfAvg[1] > 0
        THEN FracNorm(Frac((lastHalfAvg[1] * prevHalfAvg[2] - prevHalfAvg[1] * lastHalfAvg[2])
                               * 100,
                           lastHalfAvg[2] * prevHalfAvg[1]))
        ELSE Frac(0, 1)

forecastTrend(salesArray) ==
    LET t == forecastTrendPercentage(salesArray)
    IN  IF FracLT(Frac(15, 1), t) THEN "increasing"
        ELSE IF FracLT(t, Frac(0 - 15, 1)) THEN "decreasing"
        ELSE "stable"

\* 1 + (trendPercentage / 100) * 0.1
trendMultiplierOf(trendPercentage) ==
    FracNorm(Frac(1000 * trendPercentage[2] + trendPercentage[1], 1000 * trendPercentage[2]))

RECURSIVE FracPower(_, _)
FracPower(m, n) == IF n = 0 THEN Frac(1, 1) ELSE FracMul(m, FracPower(m, n - 1))

\* Math.pow(m, i / 7) is not a fraction.  For m > 0 and 0 < r < 7 the root
\* m^(r/7) lies between the weighted harmonic and the weighted arithmetic mean
\* of m and 1; the whole part of the exponent is an exact power.  A negative
\* base with a fractional exponent is NaN.
powIsNaN(m, i) == m[1] < 0 /\ i % 7 # 0

powLower(m, i) ==
    LET r == i % 7
        root == IF r = 0 THEN Frac(1, 1)
                ELSE IF m[1] = 0 THEN Frac(0, 1)
                ELSE Frac(7 * m[1], r * m[2] + (7 - r) * m[1])
    IN  FracMul(FracPower(m, i \div 7), root)

powUpper(m, i) ==
    LET r == i % 7
        root == IF r = 0 THEN Frac(1, 1)
                ELSE IF m[1] = 0 THEN Frac(0, 1)
                ELSE Frac(r * m[1] + (7 - r) * m[2], 7 * m[2])
    IN  FracMul(FracPower(m, i \div 7), root)

\* dayOfWeek === 0 || dayOfWeek === 6 ? 0.7 : 1.0
weekendFactor(date) == IF getDay(date) = 0 \/ getDay(date) = 6 THEN Frac(7, 10) ELSE Frac(1, 1)

\* Math.max(0, Math.round(avgDailySales * Math.pow(...) * weekendFactor)) for
\* a value x of the power
predictedFor(avg, x, wf) ==
    LET q == MathRound(FracMul(FracMul(avg, x), wf))
    IN  IF q > 0 THEN q ELSE 0

\* The values predictedQuantity can take on day i
predictedQuantities(avg, m, i, date) ==
    IF powIsNaN(m, i) THEN {NotANumber}
    ELSE LET a == predictedFor(avg, powLower(m, i), weekendFactor(date))
             b == predictedFor(avg, powUpper(m, i), weekendFactor(date))
         IN  IF a <= b THEN a..b ELSE b..a

\* for (let i = 1; i <= 14; i++) forecastDays.push({...}): the curves the loop
\* can build, n days of them
RECURSIVE forecastDaysOf(_, _, _, _, _)
forecastDaysOf(n, t, avg, m, price) ==
    IF n = 0 THEN {<< >>}
    ELSE {Append(days, [date |-> isoDate(t) + n, predictedQuantity |-> q,
                        predictedRevenue |-> IF q = NotANumber THEN NotANumber
                                             ELSE q * price]) :
             days \in forecastDaysOf(n - 1, t, avg, m, price),
             q \in predictedQuantities(avg, m, n, isoDate(t) + n)}

RECURSIVE sumPredicted(_)
sumPredicted(days) ==
    IF days = << >> THEN 0 ELSE Head(days).predictedQuantity + sumPredicted(Tail(days))

RECURSIVE sumSquares(_)
sumSquares(seq) ==
    IF seq = << >> THEN 0 ELSE Head(seq).quantity * Head(seq).quantity + sumSquares(Tail(seq))

\* Math.max(0, Math.min(100, Math.round((1 - coefficient) * 100))) with
\* coefficient = stdDev / avgDailySales: the rounding gives at least n exactly
\* when coefficient <= (201 - 2n) / 200, and the square of the coefficient is
\* (len * sum of squares - sum * sum) / (sum * sum).
forecastConfidence(salesArray) ==
    LET recentSales == sliceLast(salesArray, 30)
        len == Len(recentSales)
        sum == sumQuantity(recentSales)
        varTimes == IF len > 1 THEN len * sumSquares(recentSales) - sum * sum ELSE 0
        atLeast(n) == varTimes * 40000 <= (201 - 2 * n) * (201 - 2 * n) * sum * sum
        reached == {n \in 1..100 : atLeast(n)}
    IN  IF sum = 0 \/ reached = {} THEN 0
        ELSE CHOOSE n \in reached : \A k \in reached : k <= n

\* data.product.stock >= next14DaysDemand * 1.2 ? "adequate" : ...
forecastStockStatus(stock, next14DaysDemand) ==
    IF 5 * stock >= 6 * next14DaysDemand THEN "adequate"
    ELSE IF stock >= next14DaysDemand THEN "low"
    ELSE "critical"

\* forecasts.push({...}) of a product without enough data.  The admin handler
\* adds totalSold and totalRevenue, the vendor handler does not.
insufficientRecord(op, product, salesArray, items) ==
    IF op = "getAdminDemandForecasts"
    THEN [product |-> product, historicalData |-> salesArray, forecast |-> Undefined,
          trend |-> "insufficient_data", confidence |-> 0,
          totalSold |-> sumQuantity(items), totalRevenue |-> sumRevenue(items)]
    ELSE [product |-> product, historicalData |-> salesArray, forecast |-> Undefined,
          trend |-> "insufficient_data", confidence |-> 0]

\* forecasts.push({...}) of a forecasted product, for one curve of the loop
forecastRecord(product, doc, salesArray, items, forecastDays) ==
    LET avg == forecastAvgDailySales(salesArray)
        t == forecastTrendPercentage(salesArray)
        next14DaysDemand == sumPredicted(forecastDays)
    IN  [product |-> product,
         historicalData |-> sliceLast(salesArray, 30),
         avgDailySales |-> Frac(MathRound(Frac(avg[1] * 10, avg[2])), 10),
         trend |-> forecastTrend(salesArray),
         trendPercentage |-> Frac(MathRound(Frac(t[1] * 10, t[2])), 10),
         forecast |-> forecastDays,
         totalForecastDemand |-> next14DaysDemand,
         confidence |-> forecastConfidence(salesArray),
         stockStatus |-> forecastStockStatus(doc.stock, next14DaysDemand),
         currentStock |-> doc.stock,
         totalSold |-> sumQuantity(items),
         totalRevenue |-> sumRevenue(items)]

\* The records the forEach callback can push for one product
productForecasts(op, product, doc, items, t) ==
    LET salesArray == salesArrayOf(items)
    IN  IF insufficientData(salesArray)
        THEN {insufficientRecord(op, product, salesArray, items)}
        ELSE {forecastRecord(product, doc, salesArray, items, days) :
                 days \in forecastDaysOf(14, t, forecastAvgDailySales(salesArray),
                                         trendMultiplierOf(forecastTrendPercentage(salesArray)),
                                         doc.price)}

\* The order in which find() returns the products
ProductOrder == <<"p1", "p2">>

\* Product.find({vendor: req.vendor._id})
vendorProductsOf(prods, vendor) ==
    SelectSeq(ProductOrder, LAMBDA p : prods[p].vendor = vendor)

\* Product.find({status: "active"})
activeProductsOf(prods) ==
    SelectSeq(ProductOrder, LAMBDA p : prods[p].status = "active")

\* (a, b) => b.totalRevenue - a.totalRevenue; a missing totalRevenue makes the
\* difference NaN, which sort takes as 0
revenueComesFirst(b, a) ==
    /\ "totalRevenue" \in DOMAIN a
    /\ "totalRevenue" \in DOMAIN b
    /\ b.totalRevenue > a.totalRevenue

\* forecasts.sort(...): a stable sort, here by insertion
RECURSIVE insertForecast(_, _)
insertForecast(sorted, r) ==
    IF sorted = << >> THEN <<r>>
    ELSE IF revenueComesFirst(r, sorted[Len(sorted)])
         THEN Append(insertForecast(SubSeq(sorted, 1, Len(sorted) - 1), r),
                     sorted[Len(sorted)])
         ELSE Append(sorted, r)

RECURSIVE sortForecasts(_)
sortForecasts(fs) ==
    IF fs = << >> THEN << >>
    ELSE insertForecast(sortForecasts(SubSeq(fs, 1, Len(fs) - 1)), fs[Len(fs)])

\* The forecasts arrays the loop over productSalesMap can build
RECURSIVE vendorForecastLists(_, _, _, _, _)
vendorForecastLists(ps, prods, ords, t, vendor) ==
    IF ps = << >> THEN {<< >>}
    ELSE {<<r>> \o rest :
             r \in productForecasts("getVendorDemandForecasts", Head(ps), prods[Head(ps)],
                                    vendorProductItems(ords, t, vendor, Head(ps)), t),
             rest \in vendorForecastLists(Tail(ps), prods, ords, t, vendor)}

RECURSIVE adminForecastLists(_, _, _, _)
adminForecastLists(ps, prods, ords, t) ==
    IF ps = << >> THEN {<< >>}
    ELSE {<<r>> \o rest :
             r \in productForecasts("getAdminDemandForecasts", Head(ps), prods[Head(ps)],
                                    adminProductItems(ords, t, Head(ps)), t),
             rest \in adminForecastLists(Tail(ps), prods, ords, t)}

\* summary: {...}
forecastSummary(forecasts) ==
    [totalProducts |-> Len(forecasts),
     increasingTrend |-> Len(SelectSeq(forecasts, LAMBDA f : f.trend = "increasing")),
     decreasingTrend |-> Len(SelectSeq(forecasts, LAMBDA f : f.trend = "decreasing")),
     lowStockAlerts |-> Len(SelectSeq(forecasts, LAMBDA f :
                                "stockStatus" \in DOMAIN f
                                /\ f.stockStatus \in {"low", "critical"}))]

\* GET /vendor/forecasts, behind protectVendor
VendorDemandForecasts(vendor) ==
    \E fs \in vendorForecastLists(vendorProductsOf(products, vendor), products, orders,
                                  now, vendor) :
        /\ req' = [op |-> "getVendorDemandForecasts", vendor |-> vendor, at |-> now]
        /\ resp' = [status |-> 200, forecasts |-> sortForecasts(fs),
                    summary |-> forecastSummary(fs)]
        /\ UNCHANGED <<notCatalog, products>>

\* GET /admin/forecasts, behind protect and adminOnly
AdminDemandForecasts ==
    \E fs \in adminForecastLists(activeProductsOf(products), products, orders, now) :
        /\ req' = [op |-> "getAdminDemandForecasts", vendor |-> Undefined, at |-> now]
        /\ resp' = [status |-> 200, forecasts |-> sliceFirst(sortForecasts(fs), 50),
                    summary |-> forecastSummary(fs)]
        /\ UNCHANGED <<notCatalog, products>>

\* A day passes between two requests.
MaxForecastDay == 101

ForecastTick ==
    /\ isoDate(now) < MaxForecastDay
    /\ now' = now + MinutesPerDay
    /\ UNCHANGED <<events, interactions, products, orders, users, req, resp, tasks>>

\* The order histories the forecasts are asked on.  The clock starts at noon
\* of day 100; every order was placed at 10:00 of its day.
ForecastStart == 100 * MinutesPerDay + 12 * 60

orderOn(daysAgo, product, quantity, orderStatus) ==
    NewOrder("u1", ForecastStart - daysAgo * MinutesPerDay - 2 * 60, product, quantity,
             orderStatus)

\* k daily orders of p1 up to yesterday: the last 15 of quantity qLast, the
\* ones before of quantity qPrev
dailyOrders(k, qPrev, qLast) ==
    [j \in 1..k |-> orderOn(k + 1 - j, "p1", IF j <= k - 15 THEN qPrev ELSE qLast, "delivered")]

HistoryDays == {0, 2, 3, 16, 17}
HistoryQuantities == {<<1, 4>>, <<2, 2>>, <<4, 1>>}

\* an order at the edge of the 90 days
OldOrders == {<< >>, <<orderOn(89, "p1", 1, "delivered")>>, <<orderOn(90, "p1", 1, "delivered")>>}
\* a second order yesterday
SameDayOrders == {<< >>, <<orderOn(1, "p1", 1, "delivered")>>, <<orderOn(1, "p2", 1, "delivered")>>}
\* an order today, which may have been cancelled
TodayOrders ==
    {<< >>, <<orderOn(0, "p1", 1, "pending")>>, <<orderOn(0, "p1", 1, "cancelled")>>,
     <<orderOn(0, "p2", 1, "pending")>>}

OrderHistories ==
    {old \o dailyOrders(k, q[1], q[2]) \o same \o today :
        old \in OldOrders, k \in HistoryDays, q \in HistoryQuantities,
        same \in SameDayOrders, today \in TodayOrders}

InitForecast ==
    /\ now = ForecastStart
    /\ events = << >>
    /\ interactions = [k \in {} |-> DefaultInteraction]
    /\ products = InitProducts
    /\ orders \in OrderHistories
    /\ users = InitUsers
    /\ req = [op |-> "none"]
    /\ resp = [status |-> 0]
    /\ tasks = NoTasks

NextForecast ==
    \/ \E vendor \in Vendors : VendorDemandForecasts(vendor)
    \/ AdminDemandForecasts
    \/ ForecastTick

SpecForecast == InitForecast /\ [][NextForecast]_vars

\* The calendar days, within the 90 days before the request, on which a
\* non-cancelled order holds the product.
SaleDays(product) ==
    {isoDate(orders[i].createdAt) : i \in
        {i \in DOMAIN orders :
            /\ orders[i].orderStatus # "cancelled"
            /\ orders[i].createdAt >= req.at - 90 * MinutesPerDay
            /\ \E j \in DOMAIN orders[i].items : orders[i].items[j].product = product}}

ForecastOps == {"getVendorDemandForecasts", "getAdminDemandForecasts"}

\* C7: a product whose non-cancelled orders of the trailing 90 days fall on
\* fewer than 3 distinct calendar days is reported with trend
\* "insufficient_data", confidence 0 and no forecast curve; one with sales on 3
\* or more days gets a curve of exactly 14 days, every predictedQuantity >= 0.
C7_ForecastGateAndCurve ==
    req.op \in ForecastOps =>
        \A i \in DOMAIN resp.forecasts :
            LET f == resp.forecasts[i]
            IN  IF Cardinality(SaleDays(f.product)) < 3
                THEN /\ f.trend = "insufficient_data"
                     /\ f.confidence = 0
                     /\ f.forecast = Undefined
                ELSE /\ f.trend # "insufficient_data"
                     /\ f.forecast # Undefined
                     /\ Len(f.forecast) = 14
                     /\ \A d \in DOMAIN f.forecast : f.forecast[d].predictedQuantity >= 0

\* The admin report holds a product with sales on exactly 2 days, without a
\* curve, and one with a decreasing trend and its 14 days.
C7_Witness ==
    /\ req.op = "getAdminDemandForecasts"
    /\ \E i \in DOMAIN resp.forecasts :
          /\ Cardinality(SaleDays(resp.forecasts[i].product)) = 2
          /\ resp.forecasts[i].forecast = Undefined
    /\ \E i \in DOMAIN resp.forecasts :
          /\ resp.forecasts[i].trend = "decreasing"
          /\ Len(resp.forecasts[i].forecast) = 14

\* ------------------------------------------------------------------------
\* SpecReco: GET /recommendations (forYou) and the recommendation service
\* ------------------------------------------------------------------------
WEIGHTS ==
    [CATEGORY_MATCH |-> 3, TAG_MATCH |-> 2, VENDOR_MATCH |-> 1, COLLABORATIVE |-> 4,
     PURCHASE_BASED |-> 5, VIEW_BASED |-> 2]

FracAdd(a, b) == FracNorm(<<a[1] * b[2] + b[1] * a[2], a[2] * b[2]>>)

\* [...new Set(seq)]: the first occurrence of every member, in order
RECURSIVE uniqueSeq(_)
uniqueSeq(seq) ==
    IF seq = << >> THEN << >>
    ELSE LET front == uniqueSeq(SubSeq(seq, 1, Len(seq) - 1))
             last == seq[Len(seq)]
         IN  IF \E i \in DOMAIN front : front[i] = last THEN front ELSE Append(front, last)

seqMembers(seq) == {seq[i] : i \in DOMAIN seq}

\* sort({k: -1}) over records [k, v]: descending by k, equal keys in the order
\* found
RECURSIVE insertByKey(_, _)
insertByKey(sorted, x) ==
    IF sorted = << >> THEN <<x>>
    ELSE IF x.k > sorted[Len(sorted)].k
         THEN Append(insertByKey(SubSeq(sorted, 1, Len(sorted) - 1), x), sorted[Len(sorted)])
         ELSE Append(sorted, x)

RECURSIVE sortByKeyDesc(_)
sortByKeyDesc(seq) ==
    IF seq = << >> THEN << >>
    ELSE insertByKey(sortByKeyDesc(SubSeq(seq, 1, Len(seq) - 1)), seq[Len(seq)])

sortedValues(seq) == [i \in DOMAIN seq |-> sortByKeyDesc(seq)[i].v]

\* find(...).sort({timestamp: -1}).limit(n) over the user's events of one type
\* in the last 30 days
recentUserEvents(evts, t, userId, eventType, n) ==
    LET found == SelectSeq(evts, LAMBDA e :
                     /\ e.user = userId
                     /\ e.eventType = eventType
                     /\ e.product # Undefined
                     /\ e.timestamp >= t - 30 * MinutesPerDay)
    IN  sliceFirst(sortedValues([i \in DOMAIN found |-> [k |-> found[i].timestamp,
                                                         v |-> found[i]]]), n)

\* Product.find(...).sort({rating: -1, reviewCount: -1}) over the products that
\* satisfy a condition
productsByRating(prods, wanted) ==
    LET found == SelectSeq(ProductOrder, LAMBDA p : p \in wanted)
    IN  sortedValues([i \in DOMAIN found |->
                        [k |-> prods[found[i]].rating * 100000 + prods[found[i]].reviewCount,
                         v |-> found[i]]])

\* Product.find(...).sort({rating: -1})
productsByRatingOnly(prods, wanted) ==
    LET found == SelectSeq(ProductOrder, LAMBDA p : p \in wanted)
    IN  sortedValues([i \in DOMAIN found |-> [k |-> prods[found[i]].rating, v |-> found[i]]])

PurchasedStatuses == {"delivered", "shipped", "processing", "confirmed"}

\* getUserHistory.  The stored events carry no category (the client sent
\* none), so the categories are those of the interacted products.
getUserHistory(evts, ords, prods, t, userId) ==
    LET viewEvents == recentUserEvents(evts, t, userId, "view", 50)
        found == SelectSeq(ords, LAMBDA o :
                     o.user = userId /\ o.orderStatus \in PurchasedStatuses)
        userOrders == sliceFirst(sortedValues([i \in DOMAIN found |->
                                     [k |-> found[i].createdAt, v |-> found[i]]]), 20)
        items == SelectSeq(orderItems(userOrders), LAMBDA it : it.product # Undefined)
        purchasedProducts == [i \in DOMAIN items |-> items[i].product]
        cartEvents == recentUserEvents(evts, t, userId, "add_to_cart", 20)
        viewedProducts == uniqueSeq([i \in DOMAIN viewEvents |-> viewEvents[i].product])
        cartProducts == uniqueSeq([i \in DOMAIN cartEvents |-> cartEvents[i].product])
        uniquePurchased == uniqueSeq(purchasedProducts)
        allInteractedProducts == uniqueSeq(viewedProducts \o uniquePurchased \o cartProducts)
        interactedProducts ==
            {p \in DOMAIN prods : p \in seqMembers(sliceFirst(allInteractedProducts, 20))}
    IN  [viewedProducts |-> viewedProducts,
         purchasedProducts |-> uniquePurchased,
         cartProducts |-> cartProducts,
         allInteractedProducts |-> allInteractedProducts,
         categories |-> {prods[p].category : p \in interactedProducts},
         tags |-> UNION {prods[p].tags : p \in interactedProducts}]

\* getCategoryBasedRecommendations
getCategoryBasedRecommendations(prods, categories, excludeIds, limit) ==
    IF categories = {} THEN << >>
    ELSE LET found == sliceFirst(productsByRating(prods,
                          {p \in DOMAIN prods :
                              /\ prods[p].category \in categories
                              /\ p \notin seqMembers(excludeIds)
                              /\ prods[p].status = "active"}), limit)
         IN  [i \in DOMAIN found |->
                 [product |-> found[i], score |-> Frac(1, 1),
                  reason |-> "Popular in categories you like"]]

\* getTagBasedRecommendations
getTagBasedRecommendations(prods, tags, excludeIds, limit) ==
    IF tags = {} THEN << >>
    ELSE LET found == sliceFirst(productsByRatingOnly(prods,
                          {p \in DOMAIN prods :
                              /\ prods[p].tags \cap tags # {}
                              /\ p \notin seqMembers(excludeIds)
                              /\ prods[p].status = "active"}), limit)
         IN  [i \in DOMAIN found |->
                 [product |-> found[i], score |-> Frac(1, 1),
                  reason |-> "Matches your interests"]]

\* getCollaborativeRecommendations
getCollaborativeRecommendations(evts, userId, viewed, purchased, excludeIds, limit) ==
    LET interactedProducts ==
            seqMembers(sliceFirst(viewed, 10) \o sliceFirst(purchased, 10))
        shared == SelectSeq(evts, LAMBDA e :
                      /\ e.product \in interactedProducts
                      /\ e.user # userId /\ e.user # Undefined
                      /\ e.eventType \in {"view", "add_to_cart", "purchase"})
        eventCountOf(u) == Len(SelectSeq(shared, LAMBDA e : e.user = u))
        similarUserIds == {u \in {shared[i].user : i \in DOMAIN shared} : eventCountOf(u) >= 2}
        liked == SelectSeq(evts, LAMBDA e :
                     /\ e.user \in similarUserIds
                     /\ e.product # Undefined /\ e.product \notin seqMembers(excludeIds)
                     /\ e.eventType \in {"add_to_cart", "purchase", "wishlist_add"})
        scoreOf(p) ==
            Cardinality({liked[i].user : i \in {i \in DOMAIN liked : liked[i].product = p}})
                * Len(SelectSeq(liked, LAMBDA e : e.product = p))
        groups == uniqueSeq([i \in DOMAIN liked |-> liked[i].product])
        found == sliceFirst(sortedValues([i \in DOMAIN groups |->
                                [k |-> scoreOf(groups[i]), v |-> groups[i]]]), limit)
    IN  IF interactedProducts = {} \/ similarUserIds = {} THEN << >>
        ELSE [i \in DOMAIN found |->
                 [product |-> found[i],
                  score |-> FracMin(FracNorm(Frac(scoreOf(found[i]), 10)), Frac(5, 1)),
                  reason |-> "Popular with customers like you"]]

\* getSimilarToProducts
getSimilarToProducts(prods, productIds, excludeIds, limit) ==
    LET sourceProducts == {p \in DOMAIN prods : p \in seqMembers(sliceFirst(productIds, 5))}
        categories == {prods[p].category : p \in sourceProducts}
        tags == UNION {prods[p].tags : p \in sourceProducts}
        vendors == {prods[p].vendor : p \in sourceProducts}
        similarityScore(p) ==
            (IF prods[p].category \in categories THEN 3 ELSE 0)
                + Cardinality(prods[p].tags \cap tags) * 1
                + (IF prods[p].vendor \in vendors THEN 1 ELSE 0)
        matched == SelectSeq(ProductOrder, LAMBDA p :
                       /\ p \notin seqMembers(excludeIds)
                       /\ prods[p].status = "active"
                       /\ \/ prods[p].category \in categories
                          \/ prods[p].tags \cap tags # {}
                          \/ prods[p].vendor \in vendors)
        found == sliceFirst(sortedValues([i \in DOMAIN matched |->
                                [k |-> similarityScore(matched[i]) * 1000
                                           + prods[matched[i]].rating,
                                 v |-> matched[i]]]), limit)
    IN  IF productIds = << >> THEN << >>
        ELSE [i \in DOMAIN found |->
                 [product |-> found[i],
                  score |-> FracNorm(Frac(similarityScore(found[i]), 5)),
                  reason |-> "Similar to items you liked"]]

\* addCandidate
addCandidate(candidates, productId, score, reason) ==
    IF \E i \in DOMAIN candidates : candidates[i].product = productId
    THEN [i \in DOMAIN candidates |->
             IF candidates[i].product = productId
             THEN [candidates[i] EXCEPT
                       !.score = FracAdd(@, score),
                       !.reasons = IF \E j \in DOMAIN @ : @[j] = reason
                                   THEN @ ELSE Append(@, reason)]
             ELSE candidates[i]]
    ELSE Append(candidates, [product |-> productId, score |-> score, reasons |-> <<reason>>])

\* recs.forEach((rec) => addCandidate(candidates, rec.product, rec.score * weight, reason))
RECURSIVE addCandidates(_, _, _, _)
addCandidates(candidates, recs, weight, reason) ==
    IF recs = << >> THEN candidates
    ELSE addCandidates(addCandidate(candidates, Head(recs).product,
                                    FracMul(Head(recs).score, Frac(weight, 1)),
                                    IF reason = Undefined THEN Head(recs).reason ELSE reason),
                       Tail(recs), weight, reason)

\* Array.from(candidates.entries()).sort((a, b) => b[1].score - a[1].score)
RECURSIVE insertCandidate(_, _)
insertCandidate(sorted, c) ==
    IF sorted = << >> THEN <<c>>
    ELSE IF FracLT(sorted[Len(sorted)].score, c.score)
         THEN Append(insertCandidate(SubSeq(sorted, 1, Len(sorted) - 1), c),
                     sorted[Len(sorted)])
         ELSE Append(sorted, c)

RECURSIVE sortCandidates(_)
sortCandidates(cs) ==
    IF cs = << >> THEN << >>
    ELSE insertCandidate(sortCandidates(SubSeq(cs, 1, Len(cs) - 1)), cs[Len(cs)])

\* Math.ceil(limit * 1.5)
ceilOneAndHalf(limit) == (3 * limit + 1) \div 2

\* getPersonalizedRecommendations, steps 2 to 4, for a user with history
personalizedFor(evts, prods, userId, userHistory, limit) ==
    LET exclude == userHistory.allInteractedProducts
        c1 == addCandidates(<< >>,
                  getCategoryBasedRecommendations(prods, userHistory.categories, exclude,
                                                  ceilOneAndHalf(limit)),
                  WEIGHTS.CATEGORY_MATCH, Undefined)
        c2 == addCandidates(c1,
                  getTagBasedRecommendations(prods, userHistory.tags, exclude,
                                             ceilOneAndHalf(limit)),
                  WEIGHTS.TAG_MATCH, Undefined)
        c3 == addCandidates(c2,
                  getCollaborativeRecommendations(evts, userId, userHistory.viewedProducts,
                                                  userHistory.purchasedProducts, exclude,
                                                  ceilOneAndHalf(limit)),
                  WEIGHTS.COLLABORATIVE, Undefined)
        c4 == addCandidates(c3,
                  getSimilarToProducts(prods, sliceFirst(userHistory.purchasedProducts, 5),
                                       exclude, limit),
                  WEIGHTS.PURCHASE_BASED, "Similar to your purchases")
        c5 == addCandidates(c4,
                  getSimilarToProducts(prods, sliceFirst(userHistory.viewedProducts, 5),
                                       exclude, limit),
                  WEIGHTS.VIEW_BASED, "Based on your interest")
        sortedCandidates == sliceFirst(sortCandidates(c5), limit)
        kept == SelectSeq(sortedCandidates, LAMBDA c :
                    c.product \in DOMAIN prods /\ prods[c.product].status = "active")
    IN  [i \in DOMAIN kept |->
            [product |-> kept[i].product, score |-> kept[i].score,
             reason |-> kept[i].reasons[1], allReasons |-> kept[i].reasons]]

\* getPopularProducts without the high-rated products it adds
getPopularProductsTrendingOnly(evts, prods, t, limit) ==
    LET matched == SelectSeq(evts, LAMBDA e :
                       /\ e.timestamp >= t - 7 * MinutesPerDay
                       /\ e.product # Undefined
                       /\ e.eventType \in {"view", "add_to_cart", "purchase"})
        count(p, type) == Len(SelectSeq(matched, LAMBDA e : e.product = p /\ e.eventType = type))
        trendScore(p) == count(p, "view") + count(p, "add_to_cart") * 3 + count(p, "purchase") * 5
        groups == uniqueSeq([i \in DOMAIN matched |-> matched[i].product])
        trendingProducts == sliceFirst(sortedValues([i \in DOMAIN groups |->
                                           [k |-> trendScore(groups[i]), v |-> groups[i]]]),
                                       limit * 2)
        productIds == seqMembers(trendingProducts)
        products0 == SelectSeq(ProductOrder, LAMBDA p :
                         p \in productIds /\ prods[p].status = "active")
        shown == sliceFirst(products0, limit)
    IN  [i \in DOMAIN shown |->
            [product |-> shown[i],
             score |-> IF shown[i] \in productIds THEN trendScore(shown[i]) ELSE 0,
             reason |-> "Recently trending", allReasons |-> <<"Recently trending">>]]

\* getPopularProducts
getPopularProducts(evts, prods, t, limit) ==
    LET matched == SelectSeq(evts, LAMBDA e :
                       /\ e.timestamp >= t - 7 * MinutesPerDay
                       /\ e.product # Undefined
                       /\ e.eventType \in {"view", "add_to_cart", "purchase"})
        count(p, type) == Len(SelectSeq(matched, LAMBDA e : e.product = p /\ e.eventType = type))
        trendScore(p) == count(p, "view") + count(p, "add_to_cart") * 3 + count(p, "purchase") * 5
        groups == uniqueSeq([i \in DOMAIN matched |-> matched[i].product])
        trendingProducts == sliceFirst(sortedValues([i \in DOMAIN groups |->
                                           [k |-> trendScore(groups[i]), v |-> groups[i]]]),
                                       limit * 2)
        productIds == seqMembers(trendingProducts)
        products0 == SelectSeq(ProductOrder, LAMBDA p :
                         p \in productIds /\ prods[p].status = "active")
        additionalProducts ==
            sliceFirst(productsByRating(prods,
                           {p \in DOMAIN prods : p \notin productIds /\ prods[p].status = "active"}),
                       limit - Len(products0))
        products1 == IF Len(products0) < limit THEN products0 \o additionalProducts
                     ELSE products0
        shown == sliceFirst(products1, limit)
    IN  [i \in DOMAIN shown |->
            [product |-> shown[i],
             score |-> IF shown[i] \in productIds THEN trendScore(shown[i]) ELSE 0,
             reason |-> "Recently trending", allReasons |-> <<"Recently trending">>]]

\* The outcome of an awaited call: it returned a value or it threw
Returned(value) == [threw |-> FALSE, value |-> value]

Threw == [threw |-> TRUE, value |-> << >>]

\* The k-th call of getPopularProducts made for one request.  It has no
\* try/catch: when one of its store reads rejects, the call throws.  The
\* request's faults say how many of the first calls meet a rejected read.
popularProductsCall(k, faults, evts, prods, t, limit) ==
    IF k <= faults.popular THEN Threw ELSE Returned(getPopularProducts(evts, prods, t, limit))

hasHistory(userHistory) ==
    userHistory.viewedProducts # << >> \/ userHistory.purchasedProducts # << >>

\* getPersonalizedRecommendations.  faults.history: a read of getUserHistory
\* rejects; faults.generators: a read of steps 2 to 4 rejects.
getPersonalizedRecommendations(faults, evts, ords, prods, t, userId, limit) ==
    LET userHistory == getUserHistory(evts, ords, prods, t, userId)
    IN  IF faults.history
        THEN popularProductsCall(1, faults, evts, prods, t, limit)
        ELSE IF ~hasHistory(userHistory)
        THEN IF popularProductsCall(1, faults, evts, prods, t, limit).threw
             THEN popularProductsCall(2, faults, evts, prods, t, limit)
             ELSE popularProductsCall(1, faults, evts, prods, t, limit)
        ELSE IF faults.generators
        THEN popularProductsCall(1, faults, evts, prods, t, limit)
        ELSE Returned(personalizedFor(evts, prods, userId, userHistory, limit))

\* The number of getPopularProducts calls getPersonalizedRecommendations made
popularCallsOfService(faults, evts, ords, prods, t, userId) ==
    IF faults.history THEN 1
    ELSE IF ~hasHistory(getUserHistory(evts, ords, prods, t, userId))
    THEN IF 1 <= faults.popular THEN 2 ELSE 1
    ELSE IF faults.generators THEN 1
    ELSE 0

\* The response of getRecommendations for type forYou.  An error thrown out of
\* the handler goes through asyncHandler to the default error handler of
\* Express, which answers 500.
getRecommendationsResponse(faults, evts, ords, prods, t, userId, limit) ==
    LET result == getPersonalizedRecommendations(faults, evts, ords, prods, t, userId, limit)
        fallback == popularProductsCall(
                        popularCallsOfService(faults, evts, ords, prods, t, userId) + 1,
                        faults, evts, prods, t, limit)
    IN  IF ~result.threw
        THEN [status |-> 200, success |-> TRUE, type |-> "personalized",
              recommendations |-> result.value]
        ELSE IF ~fallback.threw
        THEN [status |-> 200, success |-> TRUE, type |-> "popular_fallback",
              recommendations |-> fallback.value]
        ELSE [status |-> 500, success |-> FALSE, type |-> "error",
              recommendations |-> << >>]

\* GET /recommendations?type=forYou&limit=<limit> by a signed-in user
GetRecommendations(userId, limit, faults) ==
    /\ faults.generators => hasHistory(getUserHistory(events, orders, products, now, userId))
    /\ ~(faults.history /\ faults.generators)
    /\ req' = [op |-> "getRecommendations", user |-> userId, limit |-> limit,
               faults |-> faults, at |-> now]
    /\ resp' = getRecommendationsResponse(faults, events, orders, products, now, userId, limit)
    /\ UNCHANGED <<now, events, interactions, products, orders, users, tasks>>

MaxRecoWeeks == 1

RecoStart == 40 * MinutesPerDay + 12 * 60

\* A week passes
RecoTick ==
    /\ now < RecoStart + MaxRecoWeeks * 7 * MinutesPerDay
    /\ now' = now + 7 * MinutesPerDay
    /\ UNCHANGED <<events, interactions, products, orders, users, req, resp, tasks>>

\* The tracked events the recommendations are asked on: what a client sent and
\* the minute it was tracked at
trackedOn(daysAgo, user, sessionId, eventType, product) ==
    [t |-> RecoStart - daysAgo * MinutesPerDay,
     eventData |-> [user |-> user, sessionId |-> sessionId, eventType |-> eventType,
                    product |-> product, quantity |-> UndefinedNumber,
                    timestamp |-> UndefinedNumber]]

RECURSIVE trackedEvents(_)
trackedEvents(tracked) ==
    IF tracked = << >> THEN << >>
    ELSE trackEventStore(trackedEvents(SubSeq(tracked, 1, Len(tracked) - 1)),
                         tracked[Len(tracked)].eventData, tracked[Len(tracked)].t)

RECURSIVE trackedInteractions(_)
trackedInteractions(tracked) ==
    IF tracked = << >> THEN [k \in {} |-> DefaultInteraction]
    ELSE trackEventInteractions(trackedInteractions(SubSeq(tracked, 1, Len(tracked) - 1)),
                                tracked[Len(tracked)].eventData)

OwnView == <<trackedOn(1, "u1", "s1", "view", "p1")>>

OldOwnView == <<trackedOn(25, "u1", "s1", "view", "p1")>>

OwnCartAdd == <<trackedOn(1, "u1", "s1", "add_to_cart", "p1")>>

SimilarUser ==
    <<trackedOn(3, "u2", "s2", "view", "p1"),
      trackedOn(2, "u2", "s2", "view", "p1"),
      trackedOn(2, "u2", "s2", "add_to_cart", "p2")>>

GuestView == <<trackedOn(1, Undefined, "s2", "view", "p2")>>

OwnViewOfOther == <<trackedOn(1, "u1", "s1", "view", "p2")>>

TrackedHistories ==
    {<< >>, OwnView, OldOwnView, OwnCartAdd, GuestView, SimilarUser, OldOwnView \o SimilarUser,
     OwnViewOfOther}

RecoOrders ==
    {<< >>,
     <<NewOrder("u1", RecoStart - 2 * MinutesPerDay, "p1", 1, "delivered")>>,
     <<NewOrder("u1", RecoStart - 2 * MinutesPerDay, "p1", 1, "pending")>>}

RecoCatalogs ==
    {[p \in Products |-> [InitProducts[p] EXCEPT !.status = status[p]]] :
        status \in {[p1 |-> "active", p2 |-> "active"],
                    [p1 |-> "inactive", p2 |-> "active"],
                    [p1 |-> "inactive", p2 |-> "inactive"]}}

RecoLimits == {1, 2}

RecoFaults ==
    {[history |-> FALSE, generators |-> FALSE, popular |-> 0],
     [history |-> TRUE, generators |-> FALSE, popular |-> 0],
     [history |-> FALSE, generators |-> TRUE, popular |-> 0],
     [history |-> FALSE, generators |-> FALSE, popular |-> 1],
     [history |-> FALSE, generators |-> FALSE, popular |-> 2],
     [history |-> TRUE, generators |-> FALSE, popular |-> 1],
     [history |-> TRUE, generators |-> FALSE, popular |-> 2],
     [history |-> FALSE, generators |-> TRUE, popular |-> 2]}

InitReco ==
    /\ now = RecoStart
    /\ \E tracked \in TrackedHistories :
          /\ events = trackedEvents(tracked)
          /\ interactions = trackedInteractions(tracked)
    /\ products \in RecoCatalogs
    /\ orders \in RecoOrders
    /\ users = InitUsers
    /\ req = [op |-> "none"]
    /\ resp = [status |-> 0]
    /\ tasks = NoTasks

NextReco ==
    \/ \E userId \in Users, limit \in RecoLimits, faults \in RecoFaults :
          GetRecommendations(userId, limit, faults)
    \/ RecoTick

SpecReco == InitReco /\ [][NextReco]_vars

\* The request's user has neither viewed nor purchased a product
ReqUserHasNoHistory ==
    /\ \A i \in DOMAIN events :
          ~(/\ events[i].user = req.user
            /\ events[i].eventType = "view"
            /\ events[i].product # Undefined
            /\ events[i].timestamp >= req.at - 30 * MinutesPerDay)
    /\ \A i \in DOMAIN orders :
          ~(/\ orders[i].user = req.user
            /\ orders[i].orderStatus \in PurchasedStatuses
            /\ \E j \in DOMAIN orders[i].items : orders[i].items[j].product # Undefined)

ActiveProducts == {p \in DOMAIN products : products[p].status = "active"}

\* The 7-day trend score of a product: views + 3 x cart adds + 5 x purchases
TrendScoreOf(p) ==
    LET n(type) == Cardinality({i \in DOMAIN events :
                       /\ events[i].product = p
                       /\ events[i].eventType = type
                       /\ events[i].timestamp >= req.at - 7 * MinutesPerDay})
    IN  n("view") + 3 * n("add_to_cart") + 5 * n("purchase")

IsPopularityList(recs) ==
    /\ \A i \in DOMAIN recs :
          /\ recs[i].reason = "Recently trending"
          /\ recs[i].product \in ActiveProducts
          /\ recs[i].score = TrendScoreOf(recs[i].product)
    /\ \A i, j \in DOMAIN recs : i # j => recs[i].product # recs[j].product

\* C8: a forYou recommendation request never ends in an error response:
\* whichever store read fails during the personalized computation, the caller
\* receives a successful response carrying the popularity list.
C8_NeverAnErrorResponse ==
    req.op = "getRecommendations" =>
        /\ resp.status = 200
        /\ (req.faults.history \/ req.faults.generators) =>
               IsPopularityList(resp.recommendations)

\* C9: for a user with no viewed and no purchased products whose request meets
\* no rejected read, getPersonalizedRecommendations returns the popularity
\* fallback, and with at least one active product and limit >= 1 that list is
\* never empty, even when there are no events and no orders.
C9_NoHistoryGetsPopularProducts ==
    (/\ req.op = "getRecommendations"
     /\ req.faults = [history |-> FALSE, generators |-> FALSE, popular |-> 0]
     /\ ReqUserHasNoHistory) =>
        /\ resp.status = 200
        /\ resp.type = "personalized"
        /\ IsPopularityList(resp.recommendations)
        /\ (ActiveProducts # {} /\ req.limit >= 1) => resp.recommendations # << >>

C9_Witness ==
    /\ req.op = "getRecommendations"
    /\ req.faults = [history |-> FALSE, generators |-> FALSE, popular |-> 0]
    /\ ReqUserHasNoHistory
    /\ events = << >>
    /\ orders = << >>
    /\ ActiveProducts # {}
    /\ req.limit >= 1
    /\ Len(resp.recommendations) = req.limit

\* The response of the request handled last carries the popularity list
RespIsPopularityList ==
    /\ req.op = "getRecommendations"
    /\ resp.status = 200
    /\ \/ resp.type = "popular_fallback"
       \/ req.faults.history
       \/ req.faults.generators
       \/ ReqUserHasNoHistory

\* C17: the popularity list is ranked by the 7-day trend score
\* views + 3*cartAdds + 5*purchases: non-increasing from first to last,
\* products with events ahead of the padding, and the returned products are
\* the active ones with the highest scores.
C17_PopularRankedByTrend ==
    RespIsPopularityList =>
        LET recs == resp.recommendations
            returned == {recs[i].product : i \in DOMAIN recs}
        IN  /\ \A i, j \in DOMAIN recs :
                  i < j => TrendScoreOf(recs[i].product) >= TrendScoreOf(recs[j].product)
            /\ \A i, j \in DOMAIN recs :
                  (i < j /\ TrendScoreOf(recs[j].product) > 0)
                      => TrendScoreOf(recs[i].product) > 0
            /\ \A p \in returned, q \in ActiveProducts \ returned :
                  TrendScoreOf(p) >= TrendScoreOf(q)

\* The products the request's user has viewed or added to the cart in the last
\* 30 days, or holds in an order that was not cancelled
ReqUserInteracted ==
    {events[i].product : i \in {i \in DOMAIN events :
        /\ events[i].user = req.user
        /\ events[i].eventType \in {"view", "add_to_cart"}
        /\ events[i].product # Undefined
        /\ events[i].timestamp >= req.at - 30 * MinutesPerDay}}
    \cup UNION {{orders[i].items[j].product : j \in DOMAIN orders[i].items} :
                   i \in {i \in DOMAIN orders :
                             orders[i].user = req.user /\ orders[i].orderStatus # "cancelled"}}

MaxFaultEvents == 3     \* stored events in the store-fault specification

\* trackEvent returns the event (not null): the document is valid and
\* UserEvent.create did not reject.  Its catch turns a rejection into null.
trackEventReturned(eventData, writeFails) == trackEventCreated(eventData) /\ ~writeFails

\* A batch item on which trackBatchEvents awaits isDuplicateView
batchItemChecked(item) == item.eventType = "view" /\ item.productId # Undefined

\* The status of trackBatchEvents if a rejected write failed the batch
batchStatusWriteFailsBatch(items, readFails, writeFails) ==
    IF items = << >> THEN 400
    ELSE IF \E i \in DOMAIN items :
                \/ batchItemChecked(items[i]) /\ readFails[i]
                \/ writeFails[i]
         THEN 500
    ELSE 201

\* The status of trackBatchEvents.  isDuplicateView has no try/catch: a
\* rejected findOne rejects the item's callback, Promise.all rejects, and the
\* error leaves the handler (500).  A rejected write is null in trackedEvents.
batchStatusOnStore(items, readFails, writeFails) ==
    IF items = << >> THEN 400
    ELSE IF \E i \in DOMAIN items : batchItemChecked(items[i]) /\ readFails[i]
         THEN 500
    ELSE 201

\* trackUserEvent when UserEvent.create may reject
TrackUserEventOnStore(reqUser, sessionId, body, writeFails, cap) ==
    LET eventData == [user |-> reqUser, sessionId |-> sessionId,
                      eventType |-> body.eventType, product |-> body.productId,
                      quantity |-> body.quantity, timestamp |-> UndefinedNumber]
        returned == trackEventReturned(eventData, writeFails)
    IN  /\ Len(events) < cap
        /\ events' = IF returned THEN trackEventStore(events, eventData, now) ELSE events
        /\ interactions' = IF returned THEN trackEventInteractions(interactions, eventData)
                           ELSE interactions
        /\ req' = [op |-> "trackUserEvent", user |-> reqUser, sessionId |-> sessionId,
                   items |-> <<[body EXCEPT !.timestamp = UndefinedNumber]>>, at |-> now,
                   readFails |-> <<FALSE>>, writeFails |-> <<writeFails>>]
        /\ resp' = [status |-> IF returned THEN 201 ELSE 500,
                    tracked |-> IF returned THEN 1 ELSE 0,
                    skippedDuplicates |-> 0,
                    total |-> 1]
        /\ UNCHANGED <<now, notTracking>>

\* trackBatchEvents when the store may reject the read or the write of an
\* item.  The callbacks of the other items run on: what they write stays.
TrackBatchEventsOnStore(reqUser, sessionId, items, readFails, writeFails, cap) ==
    LET threw == [i \in 1..Len(items) |-> batchItemChecked(items[i]) /\ readFails[i]]
        skipped == [i \in 1..Len(items) |->
                        /\ ~threw[i]
                        /\ batchItemSkipped(events, now, sessionId, reqUser, items[i])]
        unwritten == [i \in 1..Len(items) |-> threw[i] \/ skipped[i] \/ writeFails[i]]
        out == batchWrites(items, unwritten, sessionId, reqUser, now,
                           [events |-> events, interactions |-> interactions,
                            tracked |-> 0])
        status == batchStatusOnStore(items, readFails, writeFails)
    IN  /\ Len(events) + Len(items) <= cap
        /\ \A i \in 1..Len(items) :
              /\ readFails[i] => batchItemChecked(items[i])
              /\ writeFails[i] => ~readFails[i]
        /\ req' = [op |-> "trackBatchEvents", user |-> reqUser, sessionId |-> sessionId,
                   items |-> items, at |-> now,
                   readFails |-> readFails, writeFails |-> writeFails]
        /\ events' = out.events
        /\ interactions' = out.interactions
        /\ resp' = [status |-> status,
                    tracked |-> IF status = 201 THEN out.tracked ELSE 0,
                    skippedDuplicates |->
                        IF status = 201
                        THEN Cardinality({i \in 1..Len(items) : skipped[i]}) ELSE 0,
                    total |-> IF status = 201 THEN Len(items) ELSE 0]
        /\ UNCHANGED <<now, notTracking>>

\* The "finish" callback of trackProductView when the store may reject.  The
\* page is already sent; a rejected findOne rejects the callback before
\* trackEvent is called.
TrackProductViewOnStore(sessionId, tokenUser, productId, readFails, writeFails, cap) ==
    LET dup == isDuplicateView(events, now, sessionId, productId, tokenUser)
        eventData == [user |-> tokenUser, sessionId |-> sessionId, eventType |-> "view",
                      product |-> productId, quantity |-> UndefinedNumber,
                      timestamp |-> UndefinedNumber]
        tracked == ~readFails /\ ~dup /\ trackEventReturned(eventData, writeFails)
    IN  /\ Len(events) < cap
        /\ writeFails => ~readFails
        /\ events' = IF tracked THEN trackEventStore(events, eventData, now) ELSE events
        /\ interactions' = IF tracked THEN trackEventInteractions(interactions, eventData)
                           ELSE interactions
        /\ req' = [op |-> "trackProductView", user |-> tokenUser, sessionId |-> sessionId,
                   items |-> <<[eventType |-> "view", productId |-> productId,
                               quantity |-> UndefinedNumber, timestamp |-> UndefinedNumber]>>,
                   at |-> now, readFails |-> <<readFails>>, writeFails |-> <<writeFails>>]
        /\ resp' = [status |-> 200,
                    tracked |-> IF tracked THEN 1 ELSE 0,
                    skippedDuplicates |-> IF ~readFails /\ dup THEN 1 ELSE 0,
                    total |-> 1]
        /\ UNCHANGED <<now, notTracking>>

FaultItems ==
    {DedupItem("view", "p1", UndefinedNumber), DedupItem("click", "p1", UndefinedNumber),
     DedupItem("bogus", "p2", UndefinedNumber)}

FaultBatches ==
    {<< >>} \cup {<<a>> : a \in FaultItems} \cup {<<a, b>> : a, b \in FaultItems}

NextStoreFault ==
    \/ \E body \in FaultItems, writeFails \in BOOLEAN :
           TrackUserEventOnStore("u1", "s1", body, writeFails, MaxFaultEvents)
    \/ \E items \in FaultBatches :
           \E readFails, writeFails \in [1..Len(items) -> BOOLEAN] :
               TrackBatchEventsOnStore("u1", "s1", items, readFails, writeFails,
                                       MaxFaultEvents)
    \/ \E readFails, writeFails \in BOOLEAN :
           TrackProductViewOnStore("s1", "u1", "p1", readFails, writeFails, MaxFaultEvents)

SpecStoreFault == Init /\ [][NextStoreFault]_vars

\* The items of the request being handled that the batch and the product-view
\* path must store: valid, not a duplicate of a stored view, write not rejected
ItemsToStore ==
    {i \in DOMAIN req'.items :
        /\ req'.items[i].eventType \in EventTypeEnum
        /\ ~req'.writeFails[i]
        /\ ~(/\ req'.items[i].eventType = "view"
             /\ \E j \in DOMAIN events :
                   /\ events[j].eventType = "view"
                   /\ events[j].product = req'.items[i].productId
                   /\ events[j].user = req'.user
                   /\ events[j].timestamp >= now - VIEW_DEDUP_WINDOW_MINUTES)}

\* C11: when the read made by the duplicate-view check fails, the view is
\* treated as not a duplicate and still written, in the batch path and in the
\* product-view path; the request does not fail and the other events are
\* stored.
C11_DedupReadFailsOpen ==
    [][(/\ req'.op \in {"trackBatchEvents", "trackProductView"}
        /\ \E i \in DOMAIN req'.items : req'.readFails[i])
       => /\ resp'.status \in {200, 201}
          /\ Len(events') = Len(events) + Cardinality(ItemsToStore)]_vars

\* C12: a rejected event write answers 500 on POST track only; in POST
\* track/batch, with the duplicate checks answered, the items whose write is
\* not rejected are stored and the response is 201 with tracked = the number of
\* events the batch stored, total = the number submitted and
\* tracked + skippedDuplicates <= total.
C12_WriteFailureIsolatedInBatch ==
    [][/\ (req'.op = "trackUserEvent" /\ req'.writeFails[1])
          => (resp'.status = 500 /\ events' = events)
       /\ (/\ req'.op = "trackBatchEvents"
           /\ req'.items # << >>
           /\ \A i \in DOMAIN req'.items : ~req'.readFails[i])
          => /\ resp'.status = 201
             /\ resp'.tracked = Len(events') - Len(events)
             /\ resp'.tracked = Cardinality(ItemsToStore)
             /\ resp'.total = Len(req'.items)
             /\ resp'.tracked + resp'.skippedDuplicates <= resp'.total]_vars

\* A batch of two items, the write of the first rejected: the second is
\* stored and the response counts 1 of 2.
C12_Witness ==
    /\ req.op = "trackBatchEvents"
    /\ "writeFails" \in DOMAIN req
    /\ req.writeFails = <<TRUE, FALSE>>
    /\ resp.status = 201
    /\ resp.tracked = 1
    /\ resp.total = 2
    /\ Len(events) = 1

\* ------------------------------------------------------------------------
\* SpecForecastOrder: the forecast endpoints on two products with sales,
\* of one vendor or of two
\* ------------------------------------------------------------------------

\* An order of a product placed when the product belonged to the vendor
orderSoldBy(vendor, daysAgo, product, quantity) ==
    [orderOn(daysAgo, product, quantity, "delivered") EXCEPT !.items[1].vendor = vendor]

\* The sales of one product: none, one day, two days, three days
SalesProfiles(vendor, product) ==
    {<< >>,
     <<orderSoldBy(vendor, 1, product, 1)>>,
     <<orderSoldBy(vendor, 2, product, 2), orderSoldBy(vendor, 1, product, 2)>>,
     <<orderSoldBy(vendor, 3, product, 1), orderSoldBy(vendor, 2, product, 1),
       orderSoldBy(vendor, 1, product, 1)>>,
     <<orderSoldBy(vendor, 3, product, 3), orderSoldBy(vendor, 2, product, 3),
       orderSoldBy(vendor, 1, product, 3)>>}

\* The owner of p2: the vendor of p1 or another one
ForecastCatalogs == {[InitProducts EXCEPT !["p2"].vendor = v] : v \in Vendors}

InitForecastOrder ==
    /\ now = ForecastStart
    /\ events = << >>
    /\ interactions = [k \in {} |-> DefaultInteraction]
    /\ products \in ForecastCatalogs
    /\ \E a \in SalesProfiles("v1", "p1") :
       \E b \in SalesProfiles(products["p2"].vendor, "p2") :
           orders = sortedValues([i \in DOMAIN (a \o b) |->
                                     [k |-> 0 - (a \o b)[i].createdAt, v |-> (a \o b)[i]]])
    /\ users = InitUsers
    /\ req = [op |-> "none"]
    /\ resp = [status |-> 0]
    /\ tasks = NoTasks

SpecForecastOrder == InitForecastOrder /\ [][NextForecast]_vars

\* The revenue of a product over the trailing 90 days, in the scope of the
\* request handled last: the non-cancelled orders' items of the product (sold
\* by the vendor, on the vendor endpoint)
TrailingRevenue(product) ==
    sumRevenue(SelectSeq(orderItems(SelectSeq(orders, LAMBDA o :
                             /\ o.orderStatus # "cancelled"
                             /\ o.createdAt >= daysBefore(req.at, 90))),
                         LAMBDA it :
                             /\ it.product = product
                             /\ req.vendor # Undefined => it.vendor = req.vendor))

\* C16: the forecast list of the vendor and of the admin endpoint is ordered
\* by trailing total revenue, non-increasing from first to last, products
\* reported as insufficient_data included.
C16_ForecastsByRevenue ==
    req.op \in ForecastOps =>
        \A i, j \in DOMAIN resp.forecasts :
            i < j => TrailingRevenue(resp.forecasts[i].product)
                         >= TrailingRevenue(resp.forecasts[j].product)

\* ------------------------------------------------------------------------
\* SpecCustomers: getVendorCustomerSegments and getAdminCustomerSegments on
\* order histories of two customers
\* ------------------------------------------------------------------------

\* Order.find({"items.vendor": req.vendor._id}).sort({createdAt: -1}): the
\* vendor handler puts no condition on orderStatus
vendorSegmentOrders(ords, vendor) ==
    LET found == SelectSeq(ords, LAMBDA o :
                     \E i \in DOMAIN o.items : o.items[i].vendor = vendor)
    IN  sortedValues([i \in DOMAIN found |-> [k |-> found[i].createdAt, v |-> found[i]]])

\* Order.find({orderStatus: {$ne: "cancelled"}}).sort({createdAt: -1})
adminSegmentOrders(ords) ==
    LET found == SelectSeq(ords, LAMBDA o : o.orderStatus # "cancelled")
    IN  sortedValues([i \in DOMAIN found |-> [k |-> found[i].createdAt, v |-> found[i]]])

\* What one order adds to totalSpent: the vendor's items (vendorRevenue), or
\* order.total in the admin handler (vendor undefined)
orderSpend(order, vendor) ==
    IF vendor = Undefined THEN order.total
    ELSE sumRevenue(SelectSeq(order.items, LAMBDA it : it.vendor = vendor))

\* One pass of orders.forEach over customerMap, kept in insertion order.
\* populate("user") leaves null for a user that is not in the collection.
addOrderToCustomerMap(customerMap, order, vendor, usrs) ==
    IF order.user \notin DOMAIN usrs THEN customerMap
    ELSE LET known == \E i \in DOMAIN customerMap : customerMap[i].user = order.user
             entered == IF known THEN customerMap
                        ELSE Append(customerMap,
                                    [user |-> order.user, totalOrders |-> 0, totalSpent |-> 0,
                                     firstOrderDate |-> order.createdAt,
                                     lastOrderDate |-> order.createdAt])
         IN  [i \in DOMAIN entered |->
                 IF entered[i].user # order.user THEN entered[i]
                 ELSE [entered[i] EXCEPT
                          !.totalOrders = @ + 1,
                          !.totalSpent = @ + orderSpend(order, vendor),
                          !.firstOrderDate = IF order.createdAt < @ THEN order.createdAt ELSE @,
                          !.lastOrderDate = IF order.createdAt > @ THEN order.createdAt ELSE @]]

RECURSIVE customerMapOf(_, _, _)
customerMapOf(ords, vendor, usrs) ==
    IF ords = << >> THEN << >>
    ELSE addOrderToCustomerMap(customerMapOf(SubSeq(ords, 1, Len(ords) - 1), vendor, usrs),
                               ords[Len(ords)], vendor, usrs)

\* Math.max(...values, 1)
RECURSIVE maxOrOne(_)
maxOrOne(values) ==
    IF values = << >> THEN 1
    ELSE IF Head(values) > maxOrOne(Tail(values)) THEN Head(values)
    ELSE maxOrOne(Tail(values))

\* Math.ceil(a / b) for a >= 0, b > 0
ceilDiv(a, b) == (a + b - 1) \div b

clampScore(x) == IF x < 1 THEN 1 ELSE IF x > 5 THEN 5 ELSE x

\* Math.floor((now - lastOrderDate) / (1000 * 60 * 60 * 24))
daysSinceLastOrderOf(t, lastOrderDate) == (t - lastOrderDate) \div MinutesPerDay

maxRecency == 365

\* Math.max(1, Math.min(5, 5 - Math.floor((daysSinceLastOrder / maxRecency) * 5)))
recencyScoreOf(daysSinceLastOrder) ==
    clampScore(5 - ((daysSinceLastOrder * 5) \div maxRecency))

\* frequencyScore if it were rounded down
scaledScoreFloor(value, maxValue) == clampScore((value * 5) \div maxValue)

\* Math.max(1, Math.min(5, Math.ceil((value / maxValue) * 5))): frequencyScore
\* and monetaryScore
scaledScore(value, maxValue) == clampScore(ceilDiv(value * 5, maxValue))

\* customers.map((customer) => ({...customer, daysSinceLastOrder, ...})), with
\* the segment rules of the handler `op`
segmentedCustomersOf(customers, t, op) ==
    LET maxFrequency == maxOrOne([i \in DOMAIN customers |-> customers[i].totalOrders])
        maxMonetary == maxOrOne([i \in DOMAIN customers |-> customers[i].totalSpent])
    IN  [i \in DOMAIN customers |->
            LET c == customers[i]
                days == daysSinceLastOrderOf(t, c.lastOrderDate)
                r == recencyScoreOf(days)
                f == scaledScore(c.totalOrders, maxFrequency)
                m == scaledScore(c.totalSpent, maxMonetary)
            IN  [user |-> c.user, totalOrders |-> c.totalOrders,
                 totalSpent |-> c.totalSpent, firstOrderDate |-> c.firstOrderDate,
                 lastOrderDate |-> c.lastOrderDate, daysSinceLastOrder |-> days,
                 recencyScore |-> r, frequencyScore |-> f, monetaryScore |-> m,
                 rfmScore |-> r + f + m,
                 segment |-> IF op = "getVendorCustomerSegments"
                             THEN vendorSegment(r, f, m)
                             ELSE adminSegment(r, f, m)]]

\* segmentDistribution: the customers of each segment that has some
segmentDistributionOf(segmented) ==
    [s \in {segmented[i].segment : i \in DOMAIN segmented} |->
        [count |-> Cardinality({i \in DOMAIN segmented : segmented[i].segment = s})]]

\* segmentedCustomers.sort((a, b) => b.totalSpent - a.totalSpent)
bySpendDesc(segmented) ==
    sortedValues([i \in DOMAIN segmented |-> [k |-> segmented[i].totalSpent,
                                             v |-> segmented[i]]])

\* GET /vendor/segments, behind protectVendor
GetVendorCustomerSegments(vendor) ==
    LET customers == customerMapOf(vendorSegmentOrders(orders, vendor), vendor, users)
        segmented == segmentedCustomersOf(customers, now, "getVendorCustomerSegments")
    IN  /\ req' = [op |-> "getVendorCustomerSegments", vendor |-> vendor, at |-> now]
        /\ resp' = [status |-> 200, totalCustomers |-> Len(customers),
                    segments |-> segmentDistributionOf(segmented),
                    customers |-> sliceFirst(segmented, 50)]
        /\ UNCHANGED <<notCatalog, products>>

\* GET /admin/segments, behind protect and adminOnly
GetAdminCustomerSegments ==
    LET customers == customerMapOf(adminSegmentOrders(orders), Undefined, users)
        segmented == segmentedCustomersOf(customers, now, "getAdminCustomerSegments")
    IN  /\ req' = [op |-> "getAdminCustomerSegments", vendor |-> Undefined, at |-> now]
        /\ resp' = [status |-> 200, totalCustomers |-> Len(customers),
                    segments |-> segmentDistributionOf(segmented),
                    customers |-> sliceFirst(bySpendDesc(segmented), 100)]
        /\ UNCHANGED <<notCatalog, products>>

MaxCustomerDays == 73   \* days the clock advances in the customer specification

CustomersStart == 500 * MinutesPerDay + 12 * 60

CustomersTick ==
    /\ now < CustomersStart + MaxCustomerDays * MinutesPerDay
    /\ now' = now + 73 * MinutesPerDay
    /\ UNCHANGED <<events, interactions, products, orders, users, req, resp, tasks>>

\* An order placed at 10:00, daysAgo days before the specification starts
placedOrder(user, daysAgo, product, quantity, orderStatus) ==
    NewOrder(user, CustomersStart - daysAgo * MinutesPerDay - 2 * 60, product, quantity,
             orderStatus)

\* What one customer has ordered
OrderProfiles(user) ==
    {<< >>,
     <<placedOrder(user, 3, "p1", 1, "delivered")>>,
     <<placedOrder(user, 100, "p1", 2, "delivered"), placedOrder(user, 10, "p2", 2, "shipped"),
       placedOrder(user, 3, "p1", 2, "pending")>>,
     <<placedOrder(user, 200, "p1", 5, "delivered")>>,
     <<placedOrder(user, 400, "p2", 1, "delivered")>>,
     <<placedOrder(user, 3, "p1", 1, "cancelled")>>,
     <<placedOrder(user, 50, "p1", 1, "delivered"), placedOrder(user, 3, "p1", 3, "cancelled")>>,
     <<placedOrder(user, 34, "p1", 1, "delivered"), placedOrder(user, 33, "p1", 1, "delivered"),
       placedOrder(user, 32, "p1", 1, "cancelled"), placedOrder(user, 31, "p1", 1, "delivered"),
       placedOrder(user, 30, "p1", 1, "delivered")>>}

\* The Order collection, oldest order first
CustomerOrders ==
    {LET all == a \o b
     IN  sortedValues([i \in DOMAIN all |-> [k |-> 0 - all[i].createdAt, v |-> all[i]]]) :
        a \in OrderProfiles("u1"), b \in OrderProfiles("u2")}

InitCustomers ==
    /\ now = CustomersStart
    /\ events = << >>
    /\ interactions = [k \in {} |-> DefaultInteraction]
    /\ products = InitProducts
    /\ orders \in CustomerOrders
    /\ users = InitUsers
    /\ req = [op |-> "none"]
    /\ resp = [status |-> 0]
    /\ tasks = NoTasks

NextCustomers ==
    \/ \E vendor \in Vendors : GetVendorCustomerSegments(vendor)
    \/ GetAdminCustomerSegments
    \/ CustomersTick

SpecCustomers == InitCustomers /\ [][NextCustomers]_vars

CustomerOps == {"getVendorCustomerSegments", "getAdminCustomerSegments"}

\* The non-cancelled orders of a customer that the request handled last is
\* about: all of them platform-wide, those holding an item of the vendor
\* otherwise
CountedOrders(user) ==
    {i \in DOMAIN orders :
        /\ orders[i].user = user
        /\ orders[i].orderStatus # "cancelled"
        /\ req.vendor # Undefined =>
               \E j \in DOMAIN orders[i].items : orders[i].items[j].vendor = req.vendor}

RECURSIVE SpendOf(_)
SpendOf(S) ==
    IF S = {} THEN 0
    ELSE LET i == CHOOSE i \in S : TRUE
         IN  orderSpend(orders[i], req.vendor) + SpendOf(S \ {i})

\* C14: cancelled orders never contribute to segmentation, vendor-scoped or
\* platform-wide: each customer's order count, total spend, first-order and
\* last-order date come from the non-cancelled orders alone, and a customer
\* whose only orders are cancelled does not appear.
C14_CancelledOrdersNotSegmented ==
    req.op \in CustomerOps =>
        /\ \A i \in DOMAIN resp.customers :
              LET c == resp.customers[i]
              IN  /\ CountedOrders(c.user) # {}
                  /\ c.totalOrders = Cardinality(CountedOrders(c.user))
                  /\ c.totalSpent = SpendOf(CountedOrders(c.user))
                  /\ \A j \in CountedOrders(c.user) :
                        /\ c.firstOrderDate <= orders[j].createdAt
                        /\ c.lastOrderDate >= orders[j].createdAt
                  /\ \E j \in CountedOrders(c.user) : c.firstOrderDate = orders[j].createdAt
                  /\ \E j \in CountedOrders(c.user) : c.lastOrderDate = orders[j].createdAt
        /\ \A u \in Users :
              CountedOrders(u) = {} => \A i \in DOMAIN resp.customers : resp.customers[i].user # u

\* The largest order count and the largest spend among the reported customers
MaxOver(values) == CHOOSE v \in values \cup {1} : \A w \in values \cup {1} : w <= v

\* C15: every customer's recencyScore, frequencyScore and monetaryScore is an
\* integer in 1..5 given by the scaling (recency against 365 days, frequency
\* and monetary against the population maximum, a zero maximum taken as 1),
\* rfmScore is their sum in 3..15, and a customer holding the maximum order
\* count and the maximum spend whose last order is at most 3 days old scores
\* 5, 5, 5, rfmScore 15, Champions.
C15_RfmScoresScaled ==
    req.op \in CustomerOps =>
        LET maxOrders == MaxOver({resp.customers[i].totalOrders : i \in DOMAIN resp.customers})
            maxSpend == MaxOver({resp.customers[i].totalSpent : i \in DOMAIN resp.customers})
        IN  \A i \in DOMAIN resp.customers :
                LET c == resp.customers[i]
                IN  /\ c.recencyScore \in 1..5
                    /\ c.frequencyScore \in 1..5
                    /\ c.monetaryScore \in 1..5
                    /\ c.daysSinceLastOrder = (req.at - c.lastOrderDate) \div MinutesPerDay
                    /\ \A s \in 1..5 :
                          /\ c.recencyScore = s <=>
                                \/ s = 5 /\ c.daysSinceLastOrder * 5 < 365
                                \/ s = 1 /\ c.daysSinceLastOrder * 5 >= 4 * 365
                                \/ /\ (5 - s) * 365 <= c.daysSinceLastOrder * 5
                                   /\ c.daysSinceLastOrder * 5 < (6 - s) * 365
                          /\ c.frequencyScore = s <=>
                                /\ (s - 1) * maxOrders < c.totalOrders * 5 \/ s = 1
                                /\ c.totalOrders * 5 <= s * maxOrders
                          /\ c.monetaryScore = s <=>
                                /\ (s - 1) * maxSpend < c.totalSpent * 5 \/ s = 1
                                /\ c.totalSpent * 5 <= s * maxSpend
                    /\ c.rfmScore = c.recencyScore + c.frequencyScore + c.monetaryScore
                    /\ c.rfmScore \in 3..15
                    /\ (/\ c.totalOrders = maxOrders
                        /\ c.totalSpent = maxSpend
                        /\ c.daysSinceLastOrder <= 3)
                       => (/\ c.recencyScore = 5 /\ c.frequencyScore = 5
                           /\ c.monetaryScore = 5 /\ c.rfmScore = 15
                           /\ c.segment = "Champions")

\* The platform-wide report of two customers: one with the most orders and the
\* highest spend, last order 3 days old, scoring 5, 5, 5; the other with one
\* order 400 days old, scoring 1 on recency.
C15_Witness ==
    /\ req.op = "getAdminCustomerSegments"
    /\ Len(resp.customers) = 2
    /\ resp.customers[1].totalOrders = 3
    /\ resp.customers[1].daysSinceLastOrder = 3
    /\ resp.customers[1].rfmScore = 15
    /\ resp.customers[1].segment = "Champions"
    /\ resp.customers[2].recencyScore = 1
    /\ resp.customers[2].frequencyScore = 2

\* ------------------------------------------------------------------------
\* SpecOwnership: the reads of stored forecasts and prices and the price
\* calculation, on the routes behind `protect` and behind `protectVendor`
\* ------------------------------------------------------------------------

\* The DemandForecast collection (written by the forecasting service only)
DemandForecasts ==
    {[id |-> "f1", product |-> "p1"], [id |-> "f2", product |-> "p2"]}

\* protectVendor: the token's id is looked up among the vendors only (all of
\* them approved here); req.vendor is set.
protectVendorOf(bearer) == IF bearer \in Vendors THEN bearer ELSE Undefined

\* What the route's middleware leaves in req.user and req.vendor
routeUser(guard, bearer) == IF guard = "protect" THEN protectUser(bearer) ELSE Undefined
routeVendor(guard, bearer) ==
    IF guard = "protectVendor" THEN protectVendorOf(bearer) ELSE Undefined
routeRejects(guard, bearer) ==
    routeUser(guard, bearer) = Undefined /\ routeVendor(guard, bearer) = Undefined

\* The query of getDemandForecasts and getDynamicPrices on the product: the
\* named product when one is named, the vendor's products when req.vendor is
\* set, every product otherwise.
productQuery(prods, reqVendor, productId) ==
    IF productId # Undefined THEN {productId}
    ELSE IF reqVendor # Undefined
    THEN {p \in DOMAIN prods : prods[p].vendor = reqVendor}
    ELSE ProductIds

\* getDynamicPrices (first page): the records with the isActive asked for
getDynamicPricesRecords(prods, reqVendor, productId, isActive) ==
    {dp \in DynamicPrices : /\ dp.isActive = isActive
                            /\ dp.product \in productQuery(prods, reqVendor, productId)}

\* getDemandForecasts (first page)
getDemandForecastsRecords(prods, reqVendor, productId) ==
    {f \in DemandForecasts : f.product \in productQuery(prods, reqVendor, productId)}

\* calculateDynamicPrice: 403 for a vendor who does not own the product, 500
\* when the pricing service fails, else the service's answer for the product.
calculateDynamicPriceStatus(prods, reqVendor, productId, serviceFails) ==
    IF /\ reqVendor # Undefined
       /\ ~(productId \in DOMAIN prods /\ prods[productId].vendor = reqVendor)
    THEN 403
    ELSE IF serviceFails THEN 500 ELSE 200

\* The request as the handlers see it, and the answer: 401 from the route's
\* middleware, else the handler's status with the records it returns.
ownershipReq(op, guard, bearer, productId) ==
    [op |-> op, guard |-> guard, principal |-> bearer, productId |-> productId]

ownershipResp(guard, bearer, status, records) ==
    IF routeRejects(guard, bearer)
    THEN [status |-> 401, records |-> {}]
    ELSE [status |-> status, records |-> IF status = 200 THEN records ELSE {}]

\* router.get("/pricing", protect, ...), router.get("/vendor/pricing", protectVendor, ...)
GetDynamicPrices(guard, bearer, productId, isActive) ==
    /\ req' = ownershipReq("getDynamicPrices", guard, bearer, productId)
                   @@ [isActive |-> isActive]
    /\ resp' = ownershipResp(guard, bearer, 200,
                   getDynamicPricesRecords(products, routeVendor(guard, bearer), productId,
                                           isActive))
    /\ UNCHANGED <<now, events, interactions, products, orders, users, tasks>>

\* router.get("/forecasts", protect, getDemandForecasts)
GetDemandForecasts(bearer, productId) ==
    /\ req' = ownershipReq("getDemandForecasts", "protect", bearer, productId)
    /\ resp' = ownershipResp("protect", bearer, 200,
                   getDemandForecastsRecords(products, routeVendor("protect", bearer),
                                             productId))
    /\ UNCHANGED <<now, events, interactions, products, orders, users, tasks>>

\* router.post("/pricing/calculate", protect, ...),
\* router.post("/vendor/pricing/calculate", protectVendor, ...)
CalculateDynamicPrice(guard, bearer, productId, serviceFails) ==
    /\ req' = ownershipReq("calculateDynamicPrice", guard, bearer, productId)
    /\ resp' = ownershipResp(guard, bearer,
                   calculateDynamicPriceStatus(products, routeVendor(guard, bearer),
                                               productId, serviceFails),
                   {[id |-> "calculated", product |-> productId]})
    /\ UNCHANGED <<now, events, interactions, products, orders, users, tasks>>

RouteGuards == {"protect", "protectVendor"}
QueryProductIds == ProductIds \cup {Undefined}

NextOwnership ==
    \/ \E guard \in RouteGuards, bearer \in Bearers, productId \in QueryProductIds,
          isActive \in BOOLEAN :
           GetDynamicPrices(guard, bearer, productId, isActive)
    \/ \E bearer \in Bearers, productId \in QueryProductIds :
           GetDemandForecasts(bearer, productId)
    \/ \E guard \in RouteGuards, bearer \in Bearers, productId \in ProductIds,
          serviceFails \in BOOLEAN :
           CalculateDynamicPrice(guard, bearer, productId, serviceFails)

SpecOwnership == Init /\ [][NextOwnership]_vars

\* The request is one of the three operations, by a vendor, naming a product
\* of the catalog that belongs to another vendor.
VendorAsksForAnothersProduct ==
    /\ req.op \in {"getDynamicPrices", "getDemandForecasts", "calculateDynamicPrice"}
    /\ req.principal \in Vendors
    /\ req.productId \in DOMAIN products
    /\ products[req.productId].vendor # req.principal

\* C19: a vendor who names another vendor's product in calculateDynamicPrice,
\* getDynamicPrices or getDemandForecasts is rejected (401 or 403) and the
\* response carries no record of that product.
C19_OtherVendorsProductRejected ==
    VendorAsksForAnothersProduct =>
        /\ resp.status \in {401, 403}
        /\ \A r \in resp.records : r.product # req.productId

\* ------------------------------------------------------------------------
\* SpecRace: the tracking handlers step by step.  Every await of trackEvent,
\* updateInteractionScore and of a batch item is a step of its own; the steps
\* of the handlers in flight interleave, any store call may fail, and the
\* process may stop between two steps.
\* ------------------------------------------------------------------------

TaskIds == {"t1", "t2"}

\* A handler in flight: the request it serves, where it stands (or how it
\* ended), the event it carries, whether UserEvent.create stored it, and the
\* interaction document findOneAndUpdate handed back.
NewTask(op, request, pc, eventData) ==
    [op |-> op, request |-> request, pc |-> pc, eventData |-> eventData,
     created |-> FALSE, doc |-> DefaultInteraction]

TaskSteps == {"check", "create", "upsert", "save"}

InFlight(id) == id \in DOMAIN tasks /\ tasks[id].pc \in TaskSteps

\* The requests started so far are numbered in order
nextRequest == Cardinality({tasks[id].request : id \in DOMAIN tasks}) + 1

taskAt(id, pc) == id \in DOMAIN tasks /\ tasks[id].pc = pc

\* POST /track: trackUserEvent calls trackEvent at once
StartTrackUserEvent(id, reqUser, sessionId, body) ==
    LET eventData == [user |-> reqUser, sessionId |-> sessionId,
                      eventType |-> body.eventType, product |-> body.productId,
                      quantity |-> body.quantity, timestamp |-> UndefinedNumber]
    IN  /\ id \notin DOMAIN tasks
        /\ tasks' = tasks @@ (id :> NewTask("trackUserEvent", nextRequest, "create", eventData))
        /\ req' = [op |-> "trackUserEvent", user |-> reqUser, sessionId |-> sessionId,
                   items |-> <<body>>, at |-> now]
        /\ resp' = [status |-> 0]
        /\ UNCHANGED <<now, events, interactions, products, orders, users>>

\* Where a batch item starts: at the duplicate check when it is a view of a
\* product, at trackEvent otherwise.
batchItemStart(item) ==
    IF item.eventType = "view" /\ item.productId # Undefined THEN "check" ELSE "create"

\* POST /track/batch: events.map(async ...) starts one callback per item
StartTrackBatchEvents(ids, reqUser, sessionId, items) ==
    /\ Len(ids) = Len(items)
    /\ \A i, j \in DOMAIN ids : i # j => ids[i] # ids[j]
    /\ \A i \in DOMAIN ids : ids[i] \notin DOMAIN tasks
    /\ tasks' = tasks @@ [id \in {ids[i] : i \in DOMAIN ids} |->
                    LET i == CHOOSE k \in DOMAIN ids : ids[k] = id
                    IN  NewTask("trackBatchEvents", nextRequest, batchItemStart(items[i]),
                                batchEventData(items[i], sessionId, reqUser))]
    /\ req' = [op |-> "trackBatchEvents", user |-> reqUser, sessionId |-> sessionId,
               items |-> items, at |-> now]
    /\ resp' = [status |-> 0]
    /\ UNCHANGED <<now, events, interactions, products, orders, users>>

\* await isDuplicateView(sessionId, event.productId, userId): a duplicate ends
\* the callback, anything else goes on to trackEvent; a failed read rejects it.
CheckStep(id, readFails) ==
    LET e == tasks[id].eventData
        dup == isDuplicateView(events, now, e.sessionId, e.product, e.user)
    IN  /\ taskAt(id, "check")
        /\ tasks' = [tasks EXCEPT ![id].pc = IF readFails THEN "readFailed"
                                             ELSE IF dup THEN "skipped" ELSE "create"]
        /\ UNCHANGED <<now, events, interactions, products, orders, users, req, resp>>

\* Where trackEvent goes after UserEvent.create
afterCreate(eventData, createFails) ==
    IF createFails \/ ~trackEventCreated(eventData) THEN "createFailed"
    ELSE IF eventData.user # Undefined /\ eventData.product # Undefined THEN "upsert"
    ELSE "stored"

\* A variant in which the callback looks for a stored view again before it writes
createStepEventsRechecked(ev, eventData, t, createFails) ==
    IF createFails
       \/ (eventData.eventType = "view"
           /\ isDuplicateView(ev, t, eventData.sessionId, eventData.product, eventData.user))
    THEN ev
    ELSE trackEventStore(ev, eventData, t)

\* await UserEvent.create(eventData)
createStepEvents(ev, eventData, t, createFails) ==
    IF createFails THEN ev ELSE trackEventStore(ev, eventData, t)

CreateStep(id, createFails) ==
    LET e == tasks[id].eventData
    IN  /\ taskAt(id, "create")
        /\ events' = createStepEvents(events, e, now, createFails)
        /\ tasks' = [tasks EXCEPT ![id].pc = afterCreate(e, createFails),
                                   ![id].created = afterCreate(e, createFails) # "createFailed"]
        /\ UNCHANGED <<now, interactions, products, orders, users, req, resp>>

\* A variant of the upsert that counts the event twice
upsertStepInteractionsTwice(inter, eventData, upsertFails) ==
    IF upsertFails THEN inter
    ELSE upsertIncrement(upsertIncrement(inter, eventData.user, eventData.product,
                                         eventData.eventType, eventData),
                         eventData.user, eventData.product, eventData.eventType, eventData)

\* await UserProductInteraction.findOneAndUpdate(..., {upsert: true, new: true})
upsertStepInteractions(inter, eventData, upsertFails) ==
    IF upsertFails THEN inter
    ELSE upsertIncrement(inter, eventData.user, eventData.product, eventData.eventType,
                         eventData)

UpsertStep(id, upsertFails) ==
    LET e == tasks[id].eventData
        after == upsertStepInteractions(interactions, e, upsertFails)
    IN  /\ taskAt(id, "upsert")
        /\ interactions' = after
        /\ tasks' = IF upsertFails THEN [tasks EXCEPT ![id].pc = "upsertFailed"]
                    ELSE [tasks EXCEPT ![id].pc = "save",
                                       ![id].doc = after[<<e.user, e.product>>]]
        /\ UNCHANGED <<now, events, products, orders, users, req, resp>>

\* interaction.calculateScore(); await interaction.save()
SaveStep(id, saveFails) ==
    LET e == tasks[id].eventData
    IN  /\ taskAt(id, "save")
        /\ interactions' = IF saveFails THEN interactions
                           ELSE saveInteractionScore(interactions, <<e.user, e.product>>,
                                                     tasks[id].doc)
        /\ tasks' = [tasks EXCEPT ![id].pc = IF saveFails THEN "saveFailed" ELSE "saved"]
        /\ UNCHANGED <<now, events, products, orders, users, req, resp>>

\* The process stops: no handler in flight takes another step
ProcessStops ==
    /\ \E id \in DOMAIN tasks : InFlight(id)
    /\ tasks' = [id \in DOMAIN tasks |->
                    IF InFlight(id) THEN [tasks[id] EXCEPT !.pc = "stopped"] ELSE tasks[id]]
    /\ UNCHANGED <<now, events, interactions, products, orders, users, req, resp>>

RaceItems ==
    {ScoreItem("view", "p1", UndefinedNumber), ScoreItem("click", "p1", UndefinedNumber),
     ScoreItem("add_to_cart", "p1", UndefinedNumber)}

RaceUsers == {"u1", Undefined}

NextRace ==
    \/ \E id \in TaskIds, u \in RaceUsers, body \in RaceItems :
           StartTrackUserEvent(id, u, "s1", body)
    \/ \E a, b \in TaskIds, u \in RaceUsers, x, y \in RaceItems :
           StartTrackBatchEvents(<<a, b>>, u, "s1", <<x, y>>)
    \/ \E a \in TaskIds, u \in RaceUsers, x \in RaceItems :
           StartTrackBatchEvents(<<a>>, u, "s1", <<x>>)
    \/ \E id \in TaskIds, readFails \in BOOLEAN : CheckStep(id, readFails)
    \/ \E id \in TaskIds, createFails \in BOOLEAN : CreateStep(id, createFails)
    \/ \E id \in TaskIds, upsertFails \in BOOLEAN : UpsertStep(id, upsertFails)
    \/ \E id \in TaskIds, saveFails \in BOOLEAN : SaveStep(id, saveFails)
    \/ ProcessStops

SpecRace == Init /\ [][NextRace]_vars

\* The stored events of one kind for one user and product
StoredEventsOf(eventType, userId, productId) ==
    Cardinality({i \in DOMAIN events : /\ events[i].eventType = eventType
                                       /\ events[i].user = userId
                                       /\ events[i].product = productId})

\* The handlers that ran updateInteractionScore to its end for one event kind
SavedTasksOf(eventType, key) ==
    Cardinality({id \in DOMAIN tasks : /\ tasks[id].pc = "saved"
                                       /\ tasks[id].eventData.eventType = eventType
                                       /\ <<tasks[id].eventData.user,
                                            tasks[id].eventData.product>> = key})

\* Two handlers for the same user and product have both completed
BothCompleted(key) ==
    /\ DOMAIN tasks = TaskIds
    /\ \A id \in TaskIds : /\ tasks[id].pc = "saved"
                           /\ <<tasks[id].eventData.user, tasks[id].eventData.product>> = key

LeavesCreate(id) ==
    /\ taskAt(id, "create")
    /\ tasks'[id].pc # "create"

\* C22: the duplicate check is made per item, before the write and without a
\* lock: an item that passed its check is written whatever has been stored
\* since, so two views of the same identity and product inside the window can
\* both be stored.
C22_CheckedThenWrittenWithoutLock ==
    [][\A id \in TaskIds :
           LeavesCreate(id) =>
               IF tasks'[id].created
               THEN events' = Append(events, NewUserEvent(tasks[id].eventData, now))
               ELSE events' = events]_vars

\* Two batches of the same user, one view of p1 each, both ended; both views
\* are stored inside the window.
C22_Witness ==
    /\ DOMAIN tasks = TaskIds
    /\ \A id \in TaskIds : /\ tasks[id].op = "trackBatchEvents"
                           /\ ~InFlight(id)
                           /\ tasks[id].eventData.user = "u1"
    /\ tasks["t1"].request # tasks["t2"].request
    /\ Len(events) = 2
    /\ \A i \in DOMAIN events : /\ events[i].eventType = "view"
                                /\ events[i].product = "p1"
                                /\ events[i].user = "u1"
                                /\ events[i].timestamp >= now - VIEW_DEDUP_WINDOW_MINUTES

\* C23: the event is written before the aggregate, and the aggregate never
\* runs ahead of the log: viewCount, clickCount and cartAddCount of a record
\* are at most the stored events of that kind for its user and product, and a
\* handler whose event was created has it in the store however it ended.
C23_AggregateNeverAheadOfLog ==
    /\ \A key \in DOMAIN interactions :
           /\ interactions[key].viewCount <= StoredEventsOf("view", key[1], key[2])
           /\ interactions[key].clickCount <= StoredEventsOf("click", key[1], key[2])
           /\ interactions[key].cartAddCount <= StoredEventsOf("add_to_cart", key[1], key[2])
    /\ \A id \in DOMAIN tasks :
           tasks[id].created =>
               \E i \in DOMAIN events : events[i] = NewUserEvent(tasks[id].eventData, now)

\* The aggregate update of a stored view failed: the event is recorded, the
\* aggregate has no record of it.
C23_Witness ==
    /\ \E id \in DOMAIN tasks : /\ tasks[id].pc = "upsertFailed"
                                /\ tasks[id].eventData.eventType = "view"
    /\ StoredEventsOf("view", "u1", "p1") = 1
    /\ <<"u1", "p1">> \notin DOMAIN interactions

\* ------------------------------------------------------------------------
\* SpecScheduler: utils/scheduler.js, the daily and the weekly report job.
\* The clock of this specification is the minute of the week (0 is Sunday
\* 00:00) and wraps around, so that the jobs can run for ever.
\* ------------------------------------------------------------------------

MinutesPerWeek == 7 * MinutesPerDay

ReportJobs == {"daily", "weekly"}

\* getTimeUntilNext(6, 0) and getTimeUntilNext(7, 0, 1)
jobTarget(job) ==
    IF job = "daily" THEN [hour |-> 6, minute |-> 0, dayOfWeek |-> UndefinedNumber]
    ELSE [hour |-> 7, minute |-> 0, dayOfWeek |-> 1]

\* A variant of getTimeUntilNext that never moves a passed target to the next day
getTimeUntilNextSameDay(t, targetNow, targetHour, targetMinute, dayOfWeek) ==
    LET target == (targetNow \div MinutesPerDay) * MinutesPerDay
                      + targetHour * 60 + targetMinute
    IN  target - t

\* getTimeUntilNext, in minutes: t is the first new Date(), targetNow the
\* second one, from which the target takes its date.
getTimeUntilNext(t, targetNow, targetHour, targetMinute, dayOfWeek) ==
    LET target == (targetNow \div MinutesPerDay) * MinutesPerDay
                      + targetHour * 60 + targetMinute
        currentDay == (t \div MinutesPerDay) % 7
        daysUntilTarget == dayOfWeek - currentDay
    IN  IF dayOfWeek # UndefinedNumber
        THEN (IF daysUntilTarget < 0 \/ (daysUntilTarget = 0 /\ t >= target)
              THEN target + (daysUntilTarget + 7) * MinutesPerDay
              ELSE target + daysUntilTarget * MinutesPerDay) - t
        ELSE (IF t >= target THEN target + MinutesPerDay ELSE target) - t

\* The scheduler object and the event loop: isRunning, and per job the timers
\* armed and the timer callbacks awaiting the report.
SchedulerIdle ==
    [isRunning |-> FALSE,
     daily |-> [timers |-> << >>, awaiting |-> 0, elapsed |-> 0],
     weekly |-> [timers |-> << >>, awaiting |-> 0, elapsed |-> 0]]

\* runDaily / runWeekly: setTimeout(callback, msUntilNext)
armTimer(sched, job, t, clockMoved) ==
    LET tgt == jobTarget(job)
        delay == getTimeUntilNext(t, t + (IF clockMoved THEN 1 ELSE 0),
                                  tgt.hour, tgt.minute, tgt.dayOfWeek)
    IN  [sched EXCEPT ![job].timers =
            Append(@, [delay |-> delay, due |-> (t + delay) % MinutesPerWeek, late |-> 0])]

\* start()
schedulerStart(sched, t, clockMoved) ==
    IF sched.isRunning THEN sched
    ELSE [armTimer(armTimer(sched, "daily", t, clockMoved), "weekly", t, clockMoved)
             EXCEPT !.isRunning = TRUE]

SchedulerStart(clockMoved) ==
    /\ tasks' = schedulerStart(tasks, now, clockMoved)
    /\ req' = [op |-> "start", wasRunning |-> tasks.isRunning]
    /\ resp' = [status |-> 0]
    /\ UNCHANGED <<now, events, interactions, products, orders, users>>

\* A timer of the job is due: its callback starts and awaits the report
TimerFires(job) ==
    /\ tasks[job].timers # << >>
    /\ (Head(tasks[job].timers).due + Head(tasks[job].timers).late) % MinutesPerWeek = now
    /\ tasks' = [tasks EXCEPT ![job].timers = Tail(@), ![job].awaiting = @ + 1,
                              ![job].elapsed = 0]
    /\ req' = [op |-> "timerFires", job |-> job]
    /\ resp' = [status |-> 0]
    /\ UNCHANGED <<now, events, interactions, products, orders, users>>

\* sendDailyReport / sendWeeklyReport resolves (it catches what it throws),
\* and the callback calls runDaily / runWeekly again.
ReportOutcomes == {"sent", "skipped", "failed"}

ReportReturns(job, outcome, clockMoved) ==
    /\ tasks[job].awaiting > 0
    /\ tasks' = [armTimer(tasks, job, now, clockMoved) EXCEPT ![job].awaiting = @ - 1]
    /\ req' = [op |-> "reportReturns", job |-> job]
    /\ resp' = [status |-> 0, report |-> outcome]
    /\ UNCHANGED <<now, events, interactions, products, orders, users>>

MaxLateMinutes == 1     \* how long after its time a timer may fire
MaxReportMinutes == 1   \* how long a report may take

TimerDue(sched, job, t) ==
    \E i \in DOMAIN sched[job].timers :
        (sched[job].timers[i].due + sched[job].timers[i].late) % MinutesPerWeek = t

\* The minutes to the next timer
minutesToNextTimer(sched, t) ==
    LET dues == {(sched[job].timers[i].due - t) % MinutesPerWeek :
                    job \in {j \in ReportJobs : sched[j].timers # << >>},
                    i \in {1}}
    IN  IF dues = {} THEN 1
        ELSE CHOOSE d \in dues : \A e \in dues : d <= e

\* A minute passes while a timer is overdue or a report is awaited; otherwise
\* the clock moves on to the next timer.
PassTime ==
    LET dueNow == {job \in ReportJobs : TimerDue(tasks, job, now)}
        busy == {job \in ReportJobs : tasks[job].awaiting > 0}
    IN  /\ tasks.isRunning
        /\ \A job \in dueNow : Head(tasks[job].timers).late < MaxLateMinutes
        /\ \A job \in busy : tasks[job].elapsed < MaxReportMinutes
        /\ IF dueNow # {} \/ busy # {}
           THEN /\ now' = (now + 1) % MinutesPerWeek
                /\ tasks' = [job \in DOMAIN tasks |->
                                IF job \in dueNow
                                THEN [tasks[job] EXCEPT !.timers[1].late = @ + 1]
                                ELSE IF job \in busy
                                THEN [tasks[job] EXCEPT !.elapsed = @ + 1]
                                ELSE tasks[job]]
           ELSE /\ now' = (now + minutesToNextTimer(tasks, now)) % MinutesPerWeek
                /\ tasks' = tasks
        /\ UNCHANGED <<events, interactions, products, orders, users, req, resp>>

\* When the server starts: Monday 05:59, 06:00, 06:59, 07:00, 12:00, and the
\* last minute of Sunday.
SchedulerStarts ==
    {MinutesPerDay + 5 * 60 + 59, MinutesPerDay + 6 * 60, MinutesPerDay + 6 * 60 + 59,
     MinutesPerDay + 7 * 60, MinutesPerDay + 12 * 60, MinutesPerDay - 1}

InitScheduler ==
    /\ now \in SchedulerStarts
    /\ events = << >>
    /\ interactions = [k \in {} |-> DefaultInteraction]
    /\ products = InitProducts
    /\ orders = << >>
    /\ users = InitUsers
    /\ req = [op |-> "none"]
    /\ resp = [status |-> 0]
    /\ tasks = SchedulerIdle

NextScheduler ==
    \/ \E clockMoved \in BOOLEAN : SchedulerStart(clockMoved)
    \/ \E job \in ReportJobs : TimerFires(job)
    \/ \E job \in ReportJobs, outcome \in ReportOutcomes, clockMoved \in BOOLEAN :
           ReportReturns(job, outcome, clockMoved)
    \/ PassTime

\* The event loop runs a due timer, an awaited report settles, time passes,
\* and the server calls start().
SpecScheduler ==
    /\ InitScheduler
    /\ [][NextScheduler]_vars
    /\ WF_vars(\E clockMoved \in BOOLEAN : SchedulerStart(clockMoved))
    /\ \A job \in ReportJobs : WF_vars(TimerFires(job))
    /\ \A job \in ReportJobs :
           WF_vars(\E outcome \in ReportOutcomes, clockMoved \in BOOLEAN :
                       ReportReturns(job, outcome, clockMoved))
    /\ WF_vars(PassTime)

\* At most one timer of the job is pending, none while its callback awaits the
\* report, and every armed timer has a strictly positive delay.
OneTimerPerJob(job) ==
    /\ Len(tasks[job].timers) + tasks[job].awaiting <= 1
    /\ \A i \in DOMAIN tasks[job].timers : tasks[job].timers[i].delay > 0

JobFires(job) == req.op = "timerFires" /\ req.job = job

\* C24: after start() each report job re-arms itself: at most one timer per
\* job is pending at any moment, every timer is armed with a strictly positive
\* delay whether the report was sent, skipped or failed, a second start() arms
\* nothing, and each job fires again and again for ever.
C24_ReportJobsRescheduleForever ==
    /\ [](\A job \in ReportJobs : OneTimerPerJob(job))
    /\ [](tasks.isRunning => \A job \in ReportJobs :
              Len(tasks[job].timers) + tasks[job].awaiting = 1)
    /\ \A job \in ReportJobs : []<>JobFires(job) /\ []<>(~JobFires(job))

\* The daily report failed and its job is armed again, a day ahead at most;
\* the weekly job is armed too.
C24_Witness ==
    /\ req.op = "reportReturns"
    /\ req.job = "daily"
    /\ resp.report = "failed"
    /\ Len(tasks.daily.timers) = 1
    /\ tasks.daily.timers[1].delay \in 1..MinutesPerDay
    /\ Len(tasks.weekly.timers) = 1

\* ------------------------------------------------------------------------
\* SpecOrders: controllers/orderController.js and the eSewa payment
\* controller, one request at a time
\* ------------------------------------------------------------------------

\* The values the handlers give to orderStatus and paymentStatus
OrderStatuses == {"pending", "confirmed", "processing", "shipped", "delivered", "cancelled"}
PaymentStatuses == {"pending", "paid", "failed"}

\* The order of the cart items that pass the checks of createOrder
cartOrderItems(prods, cart) ==
    [i \in DOMAIN cart |-> [product |-> cart[i].product,
                            vendor |-> prods[cart[i].product].vendor,
                            quantity |-> cart[i].quantity, price |-> cart[i].price]]

\* An order that no payment was initiated for has no transactionUuid
NoTransaction == << >>

\* Order.create({...}) of createOrder
createdOrder(user, t, items, paymentMethod) ==
    [user |-> user, createdAt |-> t, orderStatus |-> "pending",
     total |-> orderTotal(sumRevenue(items)), items |-> items,
     paymentMethod |-> paymentMethod, paymentStatus |-> "pending",
     transactionUuid |-> NoTransaction, transactionCode |-> Undefined]

\* createOrder: the status of the stock validation loop
createOrderStatus(prods, cart) ==
    IF cart = << >> THEN 400
    ELSE IF \E i \in DOMAIN cart : cart[i].product \notin DOMAIN prods THEN 404
    ELSE IF \E i \in DOMAIN cart : prods[cart[i].product].stock < cart[i].quantity THEN 400
    ELSE 201

\* Product.findByIdAndUpdate(item.product, {$inc: {stock: by}}), item by item
RECURSIVE incStock(_, _, _)
incStock(prods, items, sign) ==
    IF items = << >> THEN prods
    ELSE incStock(IF Head(items).product \in DOMAIN prods
                  THEN [prods EXCEPT ![Head(items).product].stock =
                                          @ + sign * Head(items).quantity]
                  ELSE prods,
                  Tail(items), sign)

\* POST /api/orders, behind protect
CreateOrder(user, cart, paymentMethod, cap) ==
    LET status == createOrderStatus(products, cart)
        items == cartOrderItems(products, cart)
    IN  /\ Len(orders) < cap
        /\ req' = [op |-> "createOrder", user |-> user, cart |-> cart]
        /\ resp' = [status |-> status]
        /\ orders' = IF status = 201
                     THEN Append(orders, createdOrder(user, now, items, paymentMethod))
                     ELSE orders
        /\ products' = IF status = 201 THEN incStock(products, items, 0 - 1) ELSE products
        /\ UNCHANGED <<now, events, interactions, users, tasks>>

\* cancelOrder: the status it answers with
cancelOrderStatus(ords, user, orderId) ==
    IF orderId \notin DOMAIN ords \/ ords[orderId].user # user THEN 404
    ELSE IF ords[orderId].orderStatus \notin {"pending", "confirmed"} THEN 400
    ELSE 200

\* PUT /api/orders/:id/cancel, behind protect
CancelOrder(user, orderId) ==
    LET status == cancelOrderStatus(orders, user, orderId)
    IN  /\ req' = [op |-> "cancelOrder", user |-> user, orderId |-> orderId]
        /\ resp' = [status |-> status]
        /\ products' = IF status = 200 THEN incStock(products, orders[orderId].items, 1)
                       ELSE products
        /\ orders' = IF status = 200
                     THEN [orders EXCEPT ![orderId].orderStatus = "cancelled"]
                     ELSE orders
        /\ UNCHANGED <<now, events, interactions, users, tasks>>

\* updateOrderStatusVendor: the status it answers with
updateOrderStatusVendorStatus(ords, vendor, orderId, status) ==
    IF status \notin {"processing", "shipped"} THEN 400
    ELSE IF \/ orderId \notin DOMAIN ords
            \/ ~\E i \in DOMAIN ords[orderId].items : ords[orderId].items[i].vendor = vendor
    THEN 404
    ELSE 200

\* PUT /api/orders/vendor/:id/status, behind protectVendor
UpdateOrderStatusVendor(vendor, orderId, status) ==
    LET answer == updateOrderStatusVendorStatus(orders, vendor, orderId, status)
    IN  /\ req' = [op |-> "updateOrderStatusVendor", vendor |-> vendor,
                   orderId |-> orderId, orderStatus |-> status]
        /\ resp' = [status |-> answer]
        /\ orders' = IF answer = 200 THEN [orders EXCEPT ![orderId].orderStatus = status]
                     ELSE orders
        /\ UNCHANGED <<now, events, interactions, products, users, tasks>>

\* PUT /api/orders/admin/:id/status, behind protect and adminOnly; an absent
\* field of the body is Undefined
UpdateOrderStatusAdmin(orderId, orderStatus, paymentStatus) ==
    LET found == orderId \in DOMAIN orders
    IN  /\ req' = [op |-> "updateOrderStatusAdmin", orderId |-> orderId,
                   orderStatus |-> orderStatus, paymentStatus |-> paymentStatus]
        /\ resp' = [status |-> IF found THEN 200 ELSE 404]
        /\ orders' = IF found
                     THEN [orders EXCEPT
                              ![orderId].orderStatus =
                                  IF orderStatus # Undefined THEN orderStatus ELSE @,
                              ![orderId].paymentStatus =
                                  IF paymentStatus # Undefined THEN paymentStatus ELSE @]
                     ELSE orders
        /\ UNCHANGED <<now, events, interactions, products, users, tasks>>

\* generateSignature: the HMAC of the message under the merchant's secret key
generateSignature(message) == <<"hmac-sha256", message>>

\* ESEWA_CONFIG.merchantCode, of the environment
merchantCode == "merchant"

\* signed_field_names of the payment data that initiateEsewaPayment hands out
InitiateFields == <<"total_amount", "transaction_uuid", "product_code">>

\* `${field}=${data[field]}` of the fields that signed_field_names lists
signatureMessage(data) ==
    [i \in DOMAIN data.signed_field_names |->
        <<data.signed_field_names[i], data[data.signed_field_names[i]]>>]

\* transactionUuid = `${order.orderNumber}-${Date.now()}`
transactionUuidOf(orderId, t) == <<orderId, t>>

\* paymentData of initiateEsewaPayment
initiatedPaymentData(totalAmount, uuid) ==
    LET fields == [total_amount |-> totalAmount, transaction_uuid |-> uuid,
                   product_code |-> merchantCode, signed_field_names |-> InitiateFields]
    IN  [total_amount |-> totalAmount, transaction_uuid |-> uuid,
         product_code |-> merchantCode, signed_field_names |-> InitiateFields,
         signature |-> generateSignature(signatureMessage(fields))]

\* initiateEsewaPayment: the status it answers with
initiateEsewaPaymentStatus(ords, user, orderId) ==
    IF orderId \notin DOMAIN ords \/ ords[orderId].user # user THEN 404
    ELSE IF ords[orderId].paymentStatus = "paid" THEN 400
    ELSE IF ords[orderId].paymentMethod # "esewa" THEN 400
    ELSE 200

\* POST /api/payment/esewa/initiate, behind protect
InitiateEsewaPayment(user, orderId) ==
    LET status == initiateEsewaPaymentStatus(orders, user, orderId)
        uuid == transactionUuidOf(orderId, now)
    IN  /\ req' = [op |-> "initiateEsewaPayment", user |-> user, orderId |-> orderId]
        /\ resp' = IF status = 200
                   THEN [status |-> 200, paymentData |-> initiatedPaymentData(orders[orderId].total, uuid)]
                   ELSE [status |-> status]
        /\ orders' = IF status = 200 THEN [orders EXCEPT ![orderId].transactionUuid = uuid]
                     ELSE orders
        /\ UNCHANGED <<now, events, interactions, products, users, tasks>>

\* Order.findOne({transactionUuid: transaction_uuid}): the first such order, 0 if none
orderByTransactionUuid(ords, uuid) ==
    IF \E i \in DOMAIN ords : ords[i].transactionUuid = uuid
    THEN CHOOSE i \in DOMAIN ords :
             /\ ords[i].transactionUuid = uuid
             /\ \A j \in DOMAIN ords : ords[j].transactionUuid = uuid => i <= j
    ELSE 0

\* verifyEsewaPayment: what it answers and what it writes to the order
verifyEsewaPaymentStatus(ords, data) ==
    LET orderId == orderByTransactionUuid(ords, data.transaction_uuid)
    IN  IF data.signature # generateSignature(signatureMessage(data)) THEN 400
        ELSE IF orderId = 0 THEN 404
        ELSE IF ords[orderId].paymentStatus = "paid" THEN 200
        ELSE IF data.status # "COMPLETE" THEN 400
        ELSE IF data.total_amount # ords[orderId].total THEN 400
        ELSE 200

\* A variant of verifyEsewaPayment that does not look at the amount
verifyEsewaPaymentOrdersAnyAmount(ords, data) ==
    LET orderId == orderByTransactionUuid(ords, data.transaction_uuid)
    IN  IF data.signature # generateSignature(signatureMessage(data)) \/ orderId = 0 THEN ords
        ELSE IF ords[orderId].paymentStatus = "paid" THEN ords
        ELSE IF data.status # "COMPLETE"
        THEN [ords EXCEPT ![orderId].paymentStatus = "failed"]
        ELSE [ords EXCEPT ![orderId].paymentStatus = "paid",
                          ![orderId].transactionCode = data.transaction_code,
                          ![orderId].orderStatus = "confirmed"]

verifyEsewaPaymentOrders(ords, data) ==
    LET orderId == orderByTransactionUuid(ords, data.transaction_uuid)
    IN  IF data.signature # generateSignature(signatureMessage(data)) \/ orderId = 0 THEN ords
        ELSE IF ords[orderId].paymentStatus = "paid" THEN ords
        ELSE IF data.status # "COMPLETE" \/ data.total_amount # ords[orderId].total
        THEN [ords EXCEPT ![orderId].paymentStatus = "failed"]
        ELSE [ords EXCEPT ![orderId].paymentStatus = "paid",
                          ![orderId].transactionCode = data.transaction_code,
                          ![orderId].orderStatus = "confirmed"]

\* POST /api/payment/esewa/verify, behind protect
VerifyEsewaPayment(data) ==
    /\ req' = [op |-> "verifyEsewaPayment", data |-> data,
               orderId |-> orderByTransactionUuid(orders, data.transaction_uuid)]
    /\ resp' = [status |-> verifyEsewaPaymentStatus(orders, data)]
    /\ orders' = verifyEsewaPaymentOrders(orders, data)
    /\ UNCHANGED <<now, events, interactions, products, users, tasks>>

\* POST /api/payment/esewa/failure, behind protect
HandleEsewaFailure(user, orderId) ==
    /\ req' = [op |-> "handleEsewaFailure", user |-> user, orderId |-> orderId]
    /\ resp' = [status |-> 200]
    /\ orders' = IF /\ orderId \in DOMAIN orders
                    /\ orders[orderId].user = user
                    /\ orders[orderId].paymentStatus # "paid"
                 THEN [orders EXCEPT ![orderId].paymentStatus = "failed"]
                 ELSE orders
    /\ UNCHANGED <<now, events, interactions, products, users, tasks>>

MaxOrders == 1

\* The stock the order specifications start from
OrderStock == [p1 |-> 2, p2 |-> 1]

InitOrderProducts == [p \in Products |-> [InitProducts[p] EXCEPT !.stock = OrderStock[p]]]

cartItem(product, quantity) ==
    [product |-> product, quantity |-> quantity, price |-> InitProducts[product].price]

OrderCarts ==
    {<< >>, <<cartItem("p1", 1)>>, <<cartItem("p1", 3)>>,
     <<cartItem("p1", 2), cartItem("p2", 1)>>}

OrderIds == 1..(MaxOrders + 1)

\* signed_field_names of the response that eSewa encodes for the success URL
EsewaFields ==
    <<"transaction_code", "status", "total_amount", "transaction_uuid", "product_code",
      "signed_field_names">>

\* decodedData of a callback
callbackData(uuid, amount, status, names, signed) ==
    LET fields == [transaction_uuid |-> uuid, total_amount |-> amount,
                   transaction_code |-> "tc1", status |-> status,
                   product_code |-> merchantCode, signed_field_names |-> names]
    IN  [transaction_uuid |-> uuid, total_amount |-> amount,
         transaction_code |-> "tc1", status |-> status,
         product_code |-> merchantCode, signed_field_names |-> names,
         signature |-> IF signed THEN generateSignature(signatureMessage(fields))
                       ELSE <<"forged">>]

\* The callbacks a client may post: of a transaction that initiateEsewaPayment
\* named on an order or of none, complete or not, with the order's amount or
\* another, listing the fields that initiateEsewaPayment signs or those that
\* eSewa signs, with the signature of the listed fields or another
EsewaCallbacks ==
    {callbackData(uuid, amount, status, names, signed) :
        uuid \in ({orders[i].transactionUuid : i \in DOMAIN orders} \ {NoTransaction})
                     \cup {<<0, 0>>},
        amount \in {orders[i].total : i \in DOMAIN orders} \cup {1},
        status \in {"COMPLETE", "CANCELED"},
        names \in {InitiateFields, EsewaFields},
        signed \in BOOLEAN}

InitOrders ==
    /\ now = 0
    /\ events = << >>
    /\ interactions = [k \in {} |-> DefaultInteraction]
    /\ products = InitOrderProducts
    /\ orders = << >>
    /\ users = InitUsers
    /\ req = [op |-> "none"]
    /\ resp = [status |-> 0]
    /\ tasks = NoTasks

NextOrders ==
    \/ \E user \in Users, cart \in OrderCarts, paymentMethod \in {"cod", "esewa"} :
           CreateOrder(user, cart, paymentMethod, MaxOrders)
    \/ \E user \in Users, orderId \in OrderIds : CancelOrder(user, orderId)
    \/ \E vendor \in Vendors, orderId \in OrderIds,
          status \in {"processing", "shipped", "delivered"} :
           UpdateOrderStatusVendor(vendor, orderId, status)
    \/ \E orderId \in OrderIds, orderStatus \in {Undefined, "delivered", "cancelled"},
          paymentStatus \in {Undefined, "paid"} :
           UpdateOrderStatusAdmin(orderId, orderStatus, paymentStatus)
    \/ \E user \in Users, orderId \in OrderIds : InitiateEsewaPayment(user, orderId)
    \/ \E data \in EsewaCallbacks : VerifyEsewaPayment(data)
    \/ \E user \in Users, orderId \in OrderIds : HandleEsewaFailure(user, orderId)

SpecOrders == InitOrders /\ [][NextOrders]_vars

\* The payment handlers on the orders of one customer, with cancelOrder and
\* the admin's update between them
NextPayments ==
    \/ \E paymentMethod \in {"cod", "esewa"} :
           CreateOrder("u1", <<cartItem("p1", 1)>>, paymentMethod, MaxOrders)
    \/ \E user \in Users, orderId \in OrderIds : CancelOrder(user, orderId)
    \/ \E orderId \in OrderIds, paymentStatus \in {Undefined, "paid"} :
           UpdateOrderStatusAdmin(orderId, "delivered", paymentStatus)
    \/ \E user \in Users, orderId \in OrderIds : InitiateEsewaPayment(user, orderId)
    \/ \E data \in EsewaCallbacks : VerifyEsewaPayment(data)
    \/ \E user \in Users, orderId \in OrderIds : HandleEsewaFailure(user, orderId)

SpecPayments == InitOrders /\ [][NextPayments]_vars

\* The quantity of a product that the orders not cancelled hold
RECURSIVE heldQuantity(_, _)
heldQuantity(ords, product) ==
    IF ords = << >> THEN 0
    ELSE heldQuantity(Tail(ords), product)
         + (IF Head(ords).orderStatus = "cancelled" THEN 0
            ELSE sumQuantity(SelectSeq(Head(ords).items, LAMBDA it : it.product = product)))

\* C26: stock is conserved over createOrder, cancelOrder, updateOrderStatusVendor
\* and updateOrderStatusAdmin: for every product the stock plus the quantities
\* held by the orders not cancelled is the initial stock.
C26_StockConserved ==
    \A p \in Products : products[p].stock + heldQuantity(orders, p) = OrderStock[p]

\* The callback is signed, complete and of the order's amount
CallbackPays(data, order) ==
    /\ data.signature = generateSignature(signatureMessage(data))
    /\ data.status = "COMPLETE"
    /\ data.total_amount = order.total

\* C27: verifyEsewaPayment makes an order paid only on a callback whose
\* signature matches, whose status is COMPLETE and whose total_amount is the
\* order's total; a paid order keeps its paymentStatus, orderStatus and
\* transactionCode under every later verifyEsewaPayment and handleEsewaFailure.
C27_PaidOnlyOnceVerified ==
    [][\A i \in DOMAIN orders :
           /\ (/\ req'.op = "verifyEsewaPayment"
               /\ orders[i].paymentStatus # "paid"
               /\ orders'[i].paymentStatus = "paid") => CallbackPays(req'.data, orders[i])
           /\ (/\ req'.op \in {"verifyEsewaPayment", "handleEsewaFailure"}
               /\ orders[i].paymentStatus = "paid") =>
                  /\ orders'[i].paymentStatus = "paid"
                  /\ orders'[i].orderStatus = orders[i].orderStatus
                  /\ orders'[i].transactionCode = orders[i].transactionCode]_vars

\* An order was paid by a verified callback, and a failure callback for it has
\* been handled since.
C27_Witness ==
    /\ req.op = "handleEsewaFailure"
    /\ req.orderId = 1
    /\ Len(orders) = 1
    /\ req.user = orders[1].user
    /\ orders[1].paymentStatus = "paid"
    /\ orders[1].transactionCode = "tc1"
    /\ orders[1].orderStatus = "confirmed"

\* Every product has the stock it started with
StockRestored == \A p \in Products : products[p].stock = OrderStock[p]

\* C28: an order that cancelOrder has cancelled, its stock restored, stays
\* cancelled under initiateEsewaPayment, verifyEsewaPayment and
\* handleEsewaFailure.
C28_CancelledStaysCancelled ==
    [][\A i \in DOMAIN orders :
           (/\ orders[i].orderStatus = "cancelled"
            /\ StockRestored
            /\ req'.op \in {"initiateEsewaPayment", "verifyEsewaPayment",
                            "handleEsewaFailure"}) =>
               orders'[i].orderStatus = "cancelled"]_vars

\* ------------------------------------------------------------------------
\* SpecOrderRace: createOrder step by step.  Every await of the handler is a
\* step of its own (the stock read of an item, Order.create, the $inc of an
\* item), and the steps of the handlers in flight interleave with each other
\* and with cancelOrder.
\* ------------------------------------------------------------------------

\* A createOrder in flight: whose cart it orders, where it stands (or how it
\* ended), and the item its loop is at
NewOrderTask(user, cart) ==
    [op |-> "createOrder", user |-> user, cart |-> cart, at |-> 1,
     pc |-> IF cart = << >> THEN "rejected" ELSE "checkStock",
     status |-> IF cart = << >> THEN 400 ELSE 0]

\* POST /api/orders: Cart.findOne, and the test of the empty cart
StartCreateOrder(id, user, cart) ==
    /\ id \notin DOMAIN tasks
    /\ tasks' = tasks @@ (id :> NewOrderTask(user, cart))
    /\ req' = [op |-> "createOrder", user |-> user, cart |-> cart]
    /\ resp' = [status |-> 0]
    /\ UNCHANGED <<now, events, interactions, products, orders, users>>

\* Where the stock loop goes after Product.findById of one item
afterStockRead(prods, task) ==
    LET item == task.cart[task.at]
    IN  IF item.product \notin DOMAIN prods
        THEN [task EXCEPT !.pc = "rejected", !.status = 404]
        ELSE IF prods[item.product].stock < item.quantity
        THEN [task EXCEPT !.pc = "rejected", !.status = 400]
        ELSE IF task.at < Len(task.cart) THEN [task EXCEPT !.at = @ + 1]
        ELSE [task EXCEPT !.pc = "create", !.at = 1]

\* await Product.findById(item.product._id), and the test of its stock
CheckStockStep(id) ==
    /\ taskAt(id, "checkStock")
    /\ tasks' = [tasks EXCEPT ![id] = afterStockRead(products, tasks[id])]
    /\ UNCHANGED <<now, events, interactions, products, orders, users, req, resp>>

\* await Order.create({...})
CreateOrderStep(id) ==
    /\ taskAt(id, "create")
    /\ orders' = Append(orders, createdOrder(tasks[id].user, now,
                                            cartOrderItems(products, tasks[id].cart), "cod"))
    /\ tasks' = [tasks EXCEPT ![id].pc = "decrement"]
    /\ UNCHANGED <<now, events, interactions, products, users, req, resp>>

\* await Product.findByIdAndUpdate(item.product, {$inc: {stock: -item.quantity}})
decrementStepProducts(prods, item) == incStock(prods, <<item>>, 0 - 1)

\* One turn of the decrement loop; after the last the cart is cleared and the
\* order answered with 201
DecrementStep(id) ==
    LET task == tasks[id]
    IN  /\ taskAt(id, "decrement")
        /\ products' = decrementStepProducts(products, task.cart[task.at])
        /\ tasks' = [tasks EXCEPT ![id] = IF task.at < Len(task.cart)
                                          THEN [task EXCEPT !.at = @ + 1]
                                          ELSE [task EXCEPT !.pc = "created", !.status = 201]]
        /\ UNCHANGED <<now, events, interactions, orders, users, req, resp>>

\* The carts of the customers who order at the same time
RaceCarts ==
    {<< >>, <<cartItem("p1", 1)>>, <<cartItem("p1", 2)>>,
     <<cartItem("p2", 1), cartItem("p1", 1)>>}

NextOrderRace ==
    \/ \E id \in TaskIds, user \in Users, cart \in RaceCarts : StartCreateOrder(id, user, cart)
    \/ \E id \in TaskIds : CheckStockStep(id)
    \/ \E id \in TaskIds : CreateOrderStep(id)
    \/ \E id \in TaskIds : DecrementStep(id)
    \/ \E user \in Users, orderId \in 1..Cardinality(TaskIds) : CancelOrder(user, orderId)

SpecOrderRace == InitOrders /\ [][NextOrderRace]_vars

\* C25: the stock of a product is never negative, in every state reached
\* through createOrder and cancelOrder, the stock checks and the decrements of
\* two createOrder requests for one product interleaving as they may.
C25_StockNeverNegative == \A p \in Products : products[p].stock >= 0

\* ------------------------------------------------------------------------
\* SpecReset: the password reset by OTP.  The clock is in minutes; the users
\* are known by their e-mail address.
\* ------------------------------------------------------------------------

\* null
Null == "null"
\* null where the code expects a date
NullDate == UndefinedNumber

\* 10 * 60 * 1000 ms
OTP_MINUTES == 10

\* bcrypt.hash(password, salt) of the pre-save hook
bcryptHash(password) == <<"bcrypt", password>>

\* save(): the pre-save hook hashes a password that is set and modified
savedUser(user, passwordModified) ==
    IF passwordModified /\ user.password # Null
    THEN [user EXCEPT !.password = bcryptHash(@)]
    ELSE user

\* forgotPassword: the status it answers with
forgotPasswordStatus(us, email, mailFails) ==
    IF email \notin DOMAIN us THEN 404 ELSE IF mailFails THEN 500 ELSE 200

\* forgotPassword: the OTP and its expiry stored, removed again when the mail fails
forgotPasswordUsers(us, email, otp, t, mailFails) ==
    IF email \notin DOMAIN us THEN us
    ELSE IF mailFails THEN [us EXCEPT ![email].otp = Null, ![email].otpExpiry = NullDate]
    ELSE [us EXCEPT ![email].otp = otp, ![email].otpExpiry = t + OTP_MINUTES]

\* POST /api/auth/forgot-password
ForgotPassword(email, otp, mailFails) ==
    /\ req' = [op |-> "forgotPassword", email |-> email]
    /\ resp' = [status |-> forgotPasswordStatus(users, email, mailFails)]
    /\ users' = forgotPasswordUsers(users, email, otp, now, mailFails)
    /\ UNCHANGED <<now, events, interactions, products, orders, tasks>>

\* The tests that verifyOTP and resetPassword share: what they answer before
\* the OTP is accepted, 200 when it is
otpStatus(us, email, otp, t) ==
    IF email \notin DOMAIN us THEN 404
    ELSE IF us[email].otp = Null \/ us[email].otpExpiry = NullDate THEN 400
    ELSE IF t > us[email].otpExpiry THEN 400
    ELSE IF us[email].otp # otp THEN 400
    ELSE 200

\* An OTP found expired is removed
otpExpired(us, email, t) ==
    /\ email \in DOMAIN us
    /\ us[email].otp # Null
    /\ us[email].otpExpiry # NullDate
    /\ t > us[email].otpExpiry

clearExpiredOtp(us, email, t) ==
    IF otpExpired(us, email, t)
    THEN [us EXCEPT ![email].otp = Null, ![email].otpExpiry = NullDate]
    ELSE us

\* POST /api/auth/verify-otp
VerifyOTP(email, otp) ==
    /\ req' = [op |-> "verifyOTP", email |-> email, otp |-> otp]
    /\ resp' = [status |-> otpStatus(users, email, otp, now)]
    /\ users' = clearExpiredOtp(users, email, now)
    /\ UNCHANGED <<now, events, interactions, products, orders, tasks>>

\* resetPassword: the status it answers with
resetPasswordStatus(us, email, otp, t, saveFails) ==
    IF otpStatus(us, email, otp, t) # 200 THEN otpStatus(us, email, otp, t)
    ELSE IF saveFails THEN 500
    ELSE 200

\* A variant of resetPassword that leaves the OTP in place
resetPasswordUsersKeepsOtp(us, email, otp, newPassword, t, saveFails) ==
    IF otpStatus(us, email, otp, t) # 200 THEN clearExpiredOtp(us, email, t)
    ELSE IF saveFails THEN us
    ELSE [us EXCEPT ![email] = savedUser([@ EXCEPT !.password = newPassword], TRUE)]

\* resetPassword: user.password = newPassword, the OTP removed, user.save()
resetPasswordUsers(us, email, otp, newPassword, t, saveFails) ==
    IF otpStatus(us, email, otp, t) # 200 THEN clearExpiredOtp(us, email, t)
    ELSE IF saveFails THEN us
    ELSE [us EXCEPT ![email] = savedUser([@ EXCEPT !.password = newPassword,
                                                   !.otp = Null,
                                                   !.otpExpiry = NullDate], TRUE)]

\* POST /api/auth/reset-password
ResetPassword(email, otp, newPassword, saveFails) ==
    /\ req' = [op |-> "resetPassword", email |-> email, otp |-> otp,
               newPassword |-> newPassword]
    /\ resp' = [status |-> resetPasswordStatus(users, email, otp, now, saveFails)]
    /\ users' = resetPasswordUsers(users, email, otp, newPassword, now, saveFails)
    /\ UNCHANGED <<now, events, interactions, products, orders, tasks>>

\* crypto.randomInt(100000, 999999).toString()
Otps == {"111111", "222222"}

Emails == Users \cup {"u3"}

NewPasswords == {"password1", "password2"}

MaxResetNow == 16            \* the clock of the reset stops advancing here

ResetTickSteps == {5, 6}

\* new Date(): time passes between two requests
ResetTick(d) ==
    /\ now + d <= MaxResetNow
    /\ now' = now + d
    /\ UNCHANGED <<events, interactions, products, orders, users, req, resp, tasks>>

InitResetUsers ==
    [u \in Users |-> [role |-> InitUsers[u].role, password |-> bcryptHash("password0"),
                      otp |-> Null, otpExpiry |-> NullDate]]

InitReset ==
    /\ now = 0
    /\ events = << >>
    /\ interactions = [k \in {} |-> DefaultInteraction]
    /\ products = InitProducts
    /\ orders = << >>
    /\ users = InitResetUsers
    /\ req = [op |-> "none"]
    /\ resp = [status |-> 0]
    /\ tasks = NoTasks

NextReset ==
    \/ \E email \in Emails, otp \in Otps, mailFails \in BOOLEAN :
           ForgotPassword(email, otp, mailFails)
    \/ \E email \in Emails, otp \in Otps : VerifyOTP(email, otp)
    \/ \E email \in Emails, otp \in Otps, newPassword \in NewPasswords, saveFails \in BOOLEAN :
           ResetPassword(email, otp, newPassword, saveFails)
    \/ \E d \in ResetTickSteps : ResetTick(d)

SpecReset == InitReset /\ [][NextReset]_vars

\* A step of resetPassword for the user: the clock stands still in it
ResetStep(u) == req'.op = "resetPassword" /\ req'.email = u /\ now' = now

\* C29: resetPassword changes the password only when the OTP given is the one
\* stored and its expiry has not passed; a reset that succeeds removes the
\* OTP, so that a second reset with the same OTP fails; and an attempt that
\* fails, or comes after the expiry, leaves the password as it was.
C29_OtpSingleUseAndTimeLimited ==
    [][\A u \in Users :
           /\ users'[u].password # users[u].password =>
                  /\ req'.op = "resetPassword"
                  /\ req'.email = u
                  /\ users[u].otp # Null
                  /\ req'.otp = users[u].otp
                  /\ now <= users[u].otpExpiry
                  /\ resp'.status = 200
                  /\ users'[u].otp = Null
                  /\ users'[u].otpExpiry = NullDate
           /\ (ResetStep(u) /\ resp'.status = 200) =>
                  /\ users'[u].password = bcryptHash(req'.newPassword)
                  /\ users'[u].otp = Null
           /\ (ResetStep(u) /\ users[u].otp = Null) =>
                  /\ resp'.status # 200
                  /\ users'[u].password = users[u].password]_vars

\* The password of u1 was reset, and a second reset with an OTP has been
\* refused since, before any new OTP was asked for: the OTP is gone and the
\* password is the one of the first reset.
C29_Witness ==
    /\ req.op = "resetPassword"
    /\ req.email = "u1"
    /\ resp.status = 400
    /\ users["u1"].otp = Null
    /\ users["u1"].password = bcryptHash("password1")
    /\ req.newPassword = "password2"
    /\ now <= OTP_MINUTES

\* ------------------------------------------------------------------------
\* SpecSystem: the analytics operations together, in any order, on one
\* Event Store, catalog, order history and user store
\* ------------------------------------------------------------------------
MaxSystemEvents == 2    \* stored events in the system specification
MaxSystemTicks == 1     \* clock steps in the system specification

SystemTickMinutes == 20

SystemTick ==
    /\ now < ForecastStart + MaxSystemTicks * SystemTickMinutes
    /\ now' = now + SystemTickMinutes
    /\ UNCHANGED <<events, interactions, products, orders, users, req, resp, tasks>>

\* What the requests of the system specification carry
SystemBodies ==
    {ScoreItem("add_to_cart", "p2", UndefinedNumber), ScoreItem("view", "p1", UndefinedNumber)}

SystemPricingData ==
    [product |-> [price |-> 15, stock |-> 100], views |-> 0,
     lastThirtyDaysSales |-> 30, prevThirtyDaysSales |-> 30]

InitSystem ==
    /\ now = ForecastStart
    /\ events = << >>
    /\ interactions = [k \in {} |-> DefaultInteraction]
    /\ products = InitProducts
    /\ orders = <<orderOn(1, "p1", 2, "delivered")>>
    /\ users = InitUsers
    /\ req = [op |-> "none"]
    /\ resp = [status |-> 0]
    /\ tasks = NoTasks

NextSystem ==
    \/ \E body \in SystemBodies : TrackUserEvent("u1", "s1", body, MaxSystemEvents)
    \/ \E body \in SystemBodies : TrackBatchEvents("u1", "s1", <<body>>, MaxSystemEvents)
    \/ TrackProductView("s1", "u1", "p1", TRUE, MaxSystemEvents)
    \/ GetRecommendations("u1", 1, [history |-> FALSE, generators |-> FALSE, popular |-> 0])
    \/ GetVendorCustomerSegments("v1")
    \/ GetAdminCustomerSegments
    \/ VendorDemandForecasts("v1")
    \/ AdminDemandForecasts
    \/ \E err \in divisionErrorsOf(SystemPricingData) :
           PricingSuggestion("getVendorPricingSuggestions", SystemPricingData, err)
    \/ \E bearer \in {"u1", "v1"}, productId \in Products, priceId \in {"d1", "d3"} :
           PricingApply(bearer, productId, priceId)
    \/ SystemTick

SpecSystem == InitSystem /\ [][NextSystem]_vars

\* C13: the Event Store is append-only: whatever operation runs, the events
\* stored before it are all still there afterwards, unmodified and in place.
C13_EventStoreAppendOnly ==
    [][/\ Len(events') >= Len(events)
       /\ SubSeq(events', 1, Len(events)) = events]_vars

\* Two stored events, the second appended after the first, and a price
\* write-back handled since.
C13_Witness ==
    /\ Len(events) = 2
    /\ events[1].timestamp < events[2].timestamp
    /\ req.op = "applyDynamicPrice"
    /\ resp.status = 200

\* The catalog `after` is the catalog `before` with the price of productId set
\* to price, apart from the fields of that product named in `aside`.
CatalogWithPrice(before, after, productId, price, aside) ==
    /\ DOMAIN after = DOMAIN before
    /\ after[productId].price = price
    /\ \A p \in DOMAIN before :
           /\ DOMAIN after[p] = DOMAIN before[p]
           /\ \A f \in DOMAIN before[p] :
                  (p # productId \/ f \notin ({"price"} \cup aside)) =>
                      after[p][f] = before[p][f]

\* The last request was an applyDynamicPrice that succeeded
AppliedPrice(r, rsp) == r.op = "applyDynamicPrice" /\ rsp.status = 200

\* C20 as stated: of the analytics operations only applyDynamicPrice writes to
\* the catalog, the orders or the users; a successful apply sets the price of
\* the named product to the record's recommendedPrice and leaves every other
\* product field, every other product, every order and every user unchanged.
C20_OnlyApplyWritesCatalog ==
    [][/\ orders' = orders
       /\ users' = users
       /\ IF AppliedPrice(req', resp')
          THEN \E dp \in DynamicPrices :
                   /\ dp.id = req'.priceId
                   /\ CatalogWithPrice(products, products', req'.productId,
                                       dp.recommendedPrice, {})
          ELSE products' = products]_vars

\* C20, amended: the same, except that the write of a changed price also sets
\* the updatedAt timestamp of the named product to the time of the write.
C20_OnlyApplyWritesPriceAndTimestamp ==
    [][/\ orders' = orders
       /\ users' = users
       /\ IF AppliedPrice(req', resp')
          THEN \E dp \in DynamicPrices :
                   /\ dp.id = req'.priceId
                   /\ CatalogWithPrice(products, products', req'.productId,
                                       dp.recommendedPrice, {"updatedAt"})
                   /\ products'[req'.productId].updatedAt
                          \in {products[req'.productId].updatedAt, now}
          ELSE products' = products]_vars

\* A successful apply has written the recommended price of d1 to p1, after a
\* tracked event, with the other product, the order and the users as they were.
C20_Witness ==
    /\ AppliedPrice(req, resp)
    /\ req.productId = "p1"
    /\ products["p1"].price = 120
    /\ products["p1"].updatedAt = now
    /\ products["p2"] = InitProducts["p2"]
    /\ Len(events) > 0
    /\ Len(orders) = 1
    /\ users = InitUsers

\* ------------------------------------------------------------------------
\* Properties of event tracking
\* ------------------------------------------------------------------------

\* C1: after any sequence of tracked events, handled one after the other, the
\* interactionScore of every (user, product) record equals
\* 1*viewCount + 2*clickCount + 3*cartAddCount + 3*wishlistCount + 5*purchaseCount
\* of that record.
C1_ScoreIsWeightedSum ==
    \A k \in DOMAIN interactions :
        interactions[k].interactionScore =
            1 * interactions[k].viewCount + 2 * interactions[k].clickCount
            + 3 * interactions[k].cartAddCount + 3 * interactions[k].wishlistCount
            + 5 * interactions[k].purchaseCount

\* A record that three events of three kinds have updated, one of them a
\* purchase of quantity 2.
C1_Witness ==
    /\ <<"u1", "p1">> \in DOMAIN interactions
    /\ interactions[<<"u1", "p1">>].viewCount = 1
    /\ interactions[<<"u1", "p1">>].purchaseCount = 2
    /\ interactions[<<"u1", "p1">>].wishlistCount = 1

\* The events the store held before the request handled last.
PriorEvents == SubSeq(events, 1, Len(events) - resp.tracked)

\* The request handled last submitted exactly one event, a view of a product,
\* and was not rejected.
ReqIsOneView ==
    /\ req.op \in {"trackUserEvent", "trackBatchEvents", "trackProductView"}
    /\ resp.status \in {200, 201}
    /\ Len(req.items) = 1
    /\ req.items[1].eventType = "view"
    /\ req.items[1].productId # Undefined

\* The dedup identity of the spec: the user id when authenticated, otherwise
\* the session id.
IdentityOf(user, sessionId) == IF user # Undefined THEN user ELSE sessionId

SameIdentityView(e) ==
    /\ e.eventType = "view"
    /\ e.product = req.items[1].productId
    /\ IdentityOf(e.user, e.sessionId) = IdentityOf(req.user, req.sessionId)

\* C2: a view submitted through any tracking entrypoint less than 30 minutes
\* after a stored view of the same identity and product is not stored (one
\* stored event for the two); submitted more than 30 minutes after the only
\* earlier views of that product, it is stored (two stored events).
C2_OneViewPerWindow ==
    ReqIsOneView =>
        /\ (\E i \in 1..Len(PriorEvents) :
                /\ SameIdentityView(PriorEvents[i])
                /\ PriorEvents[i].timestamp > req.at - VIEW_DEDUP_WINDOW_MINUTES)
            => resp.tracked = 0
        /\ (/\ \E i \in 1..Len(PriorEvents) : SameIdentityView(PriorEvents[i])
            /\ \A i \in 1..Len(PriorEvents) :
                   (PriorEvents[i].eventType = "view"
                    /\ PriorEvents[i].product = req.items[1].productId)
                   => (/\ SameIdentityView(PriorEvents[i])
                       /\ PriorEvents[i].timestamp
                              < req.at - VIEW_DEDUP_WINDOW_MINUTES))
            => resp.tracked = 1

\* A stored view of the request's product in the window, by the request's user
\* or under the request's session.
PriorViewByUser ==
    \E i \in 1..Len(PriorEvents) :
        /\ PriorEvents[i].eventType = "view"
        /\ PriorEvents[i].product = req.items[1].productId
        /\ PriorEvents[i].timestamp >= req.at - VIEW_DEDUP_WINDOW_MINUTES
        /\ PriorEvents[i].user = req.user

PriorViewBySession ==
    \E i \in 1..Len(PriorEvents) :
        /\ PriorEvents[i].eventType = "view"
        /\ PriorEvents[i].product = req.items[1].productId
        /\ PriorEvents[i].timestamp >= req.at - VIEW_DEDUP_WINDOW_MINUTES
        /\ PriorEvents[i].sessionId = req.sessionId

\* C10: where the duplicate check runs (automatic product views, batch items),
\* a view by an authenticated user is suppressed whenever the store holds a view
\* of that product by the same user timestamped in the last 30 minutes, under
\* whatever session; a view by an anonymous visitor is suppressed only if the
\* store holds such a view carrying the visitor's own session id.
C10_DedupKey ==
    (ReqIsOneView /\ req.op \in {"trackBatchEvents", "trackProductView"}) =>
        /\ (req.user # Undefined /\ PriorViewByUser) => resp.tracked = 0
        /\ (req.user = Undefined /\ resp.tracked = 0) => PriorViewBySession

\* A product view by u1 under session s2, suppressed by a view u1 made under
\* session s1, the store holding no view of session s2.
C10_Witness ==
    /\ ReqIsOneView
    /\ req.op = "trackProductView"
    /\ req.user = "u1"
    /\ req.sessionId = "s2"
    /\ resp.tracked = 0
    /\ PriorViewByUser
    /\ ~PriorViewBySession

====
